---- MODULE Spec2Model ----
(***************************************************************************)
(* The heuristic structural extractor of CodeGraph Offline                 *)
(* (services/geminiService.ts): determineEndLine, generateId and           *)
(* analyzeCodebase, stepped one file and one line at a time.               *)
(*                                                                         *)
(* A string is a sequence of one-character strings, so that the regular    *)
(* expressions, trim, split, includes and endsWith of the source are       *)
(* computed character by character.  Indices passed to and returned by     *)
(* determineEndLine are the 0-based indices of the source; line numbers    *)
(* of nodes are 1-based as in the source.                                  *)
(***************************************************************************)
EXTENDS Integers, Sequences, FiniteSets, Bags, TLC

(***************************************************************************)
(* Characters                                                              *)
(***************************************************************************)
Lower ==
  {"a", "b", "c", "d", "e", "f", "g", "h", "i", "j", "k", "l", "m",
   "n", "o", "p", "q", "r", "s", "t", "u", "v", "w", "x", "y", "z"}

Upper ==
  {"A", "B", "C", "D", "E", "F", "G", "H", "I", "J", "K", "L", "M",
   "N", "O", "P", "Q", "R", "S", "T", "U", "V", "W", "X", "Y", "Z"}

Digit ==
  {"0", "1", "2", "3", "4", "5", "6", "7", "8", "9"}

\* \w of a JavaScript regular expression
WordChar ==
  Lower \cup Upper \cup Digit \cup {"_"}

\* \s of a JavaScript regular expression, as far as it occurs inside a line
WhiteSpace ==
  {" ", "\t", "\r"}

\* the characters . does not match
LineTerminator ==
  {"\n", "\r"}

\* [\w:*&<>] of the C/C++ function pattern
TypeChar ==
  WordChar \cup {":", "*", "&", "<", ">"}

\* [\w:] of the C/C++ function pattern
NameChar ==
  WordChar \cup {":"}

Min(a, b) ==
  IF a <= b THEN a ELSE b

Max(a, b) ==
  IF a >= b THEN a ELSE b

(***************************************************************************)
(* String primitives (positions are 1-based positions of the sequence)     *)
(***************************************************************************)
\* the first position >= i whose character is outside S, Len(s) + 1 if none
RECURSIVE SkipWhile(_, _, _)
SkipWhile(s, i, S) ==
  IF i > Len(s) THEN Len(s) + 1
  ELSE IF s[i] \in S THEN SkipWhile(s, i + 1, S)
  ELSE i

\* the last position <= i whose character is outside S, 0 if none
RECURSIVE SkipBack(_, _, _)
SkipBack(s, i, S) ==
  IF i < 1 THEN 0
  ELSE IF s[i] \in S THEN SkipBack(s, i - 1, S)
  ELSE i

\* the literal p occurs in s at position i
StartsWithAt(s, p, i) ==
  /\ i >= 1
  /\ i + Len(p) - 1 <= Len(s)
  /\ SubSeq(s, i, i + Len(p) - 1) = p

\* String.prototype.trim
Trim(s) ==
  SubSeq(s, SkipWhile(s, 1, WhiteSpace), SkipBack(s, Len(s), WhiteSpace))

\* s.search(/\S/): 0-based index of the first non-whitespace character, or -1
SearchNonSpace(s) ==
  LET j == SkipWhile(s, 1, WhiteSpace)
  IN  IF j > Len(s) THEN -1 ELSE j - 1

\* String.prototype.includes
Includes(s, sub) ==
  \E i \in 1..(Len(s) - Len(sub) + 1) : SubSeq(s, i, i + Len(sub) - 1) = sub

\* String.prototype.endsWith
EndsWith(s, suf) ==
  /\ Len(suf) <= Len(s)
  /\ SubSeq(s, Len(s) - Len(suf) + 1, Len(s)) = suf

\* the first position >= i of character c in s, 0 if none
RECURSIVE IndexOfChar(_, _, _)
IndexOfChar(s, c, i) ==
  IF i > Len(s) THEN 0
  ELSE IF s[i] = c THEN i
  ELSE IndexOfChar(s, c, i + 1)

\* s.split('\n'): always at least one line
RECURSIVE SplitLines(_)
SplitLines(s) ==
  LET i == IndexOfChar(s, "\n", 1)
  IN  IF i = 0 THEN <<s>>
      ELSE <<SubSeq(s, 1, i - 1)>> \o SplitLines(SubSeq(s, i + 1, Len(s)))

\* s.split('/').pop(): the text after the last '/'
LastSegment(s) ==
  SubSeq(s, SkipBack(s, Len(s), {s[k] : k \in 1..Len(s)} \ {"/"}) + 1, Len(s))

\* (line.match(/c/g) || []).length
CountChar(line, c) ==
  Cardinality({k \in 1..Len(line) : line[k] = c})

(***************************************************************************)
(* Literals of the patterns                                                *)
(***************************************************************************)
KwClass ==
  <<"c", "l", "a", "s", "s">>

KwStruct ==
  <<"s", "t", "r", "u", "c", "t">>

KwDef ==
  <<"d", "e", "f">>

KwFrom ==
  <<"f", "r", "o", "m">>

KwImport ==
  <<"i", "m", "p", "o", "r", "t">>

KwExport ==
  <<"e", "x", "p", "o", "r", "t">>

KwFunction ==
  <<"f", "u", "n", "c", "t", "i", "o", "n">>

KwConst ==
  <<"c", "o", "n", "s", "t">>

KwAsync ==
  <<"a", "s", "y", "n", "c">>

KwInclude ==
  <<"#", "i", "n", "c", "l", "u", "d", "e">>

Arrow ==
  <<"=", ">">>

ExtPy ==
  <<".", "p", "y">>

\* the alternatives of /\.(js|ts|jsx|tsx)$/
ExtJs ==
  {<<".", "j", "s">>, <<".", "t", "s">>,
   <<".", "j", "s", "x">>, <<".", "t", "s", "x">>}

\* the alternatives of /\.(c|cpp|h|hpp|cc)$/
ExtCpp ==
  {<<".", "c">>, <<".", "c", "p", "p">>, <<".", "h">>,
   <<".", "h", "p", "p">>, <<".", "c", "c">>}

\* const keywords = [...]
keywords ==
  {<<"i", "f">>, <<"w", "h", "i", "l", "e">>, <<"f", "o", "r">>,
   <<"s", "w", "i", "t", "c", "h">>,
   <<"r", "e", "t", "u", "r", "n">>,
   <<"c", "a", "t", "c", "h">>, <<"e", "l", "s", "e">>,
   <<"n", "e", "w">>, <<"d", "e", "l", "e", "t", "e">>}

\* the value of a match that failed (a captured name is never empty)
NoMatch ==
  <<>>

(***************************************************************************)
(* The regular expressions of analyzeCodebase.  Each operator returns the  *)
(* text of the capture group used by the source, or NoMatch.               *)
(***************************************************************************)
\* \s+(\w+) at position a: the captured word, or NoMatch
WordAfterSpace(line, a) ==
  LET b == SkipWhile(line, a, WhiteSpace)
      c == SkipWhile(line, b, WordChar)
  IN  IF b > a /\ c > b THEN SubSeq(line, b, c - 1) ELSE NoMatch

\* /^class\s+(\w+)/
PyClassMatch(line) ==
  IF StartsWithAt(line, KwClass, 1)
  THEN WordAfterSpace(line, 1 + Len(KwClass))
  ELSE NoMatch

\* /^\s*def\s+(\w+)/
PyFuncMatch(line) ==
  LET i == SkipWhile(line, 1, WhiteSpace)
  IN  IF StartsWithAt(line, KwDef, i)
      THEN WordAfterSpace(line, i + Len(KwDef))
      ELSE NoMatch

\* /^(?:from|import)\s+(\w+)/
PyImportMatch(line) ==
  IF StartsWithAt(line, KwFrom, 1)
  THEN WordAfterSpace(line, 1 + Len(KwFrom))
  ELSE IF StartsWithAt(line, KwImport, 1)
  THEN WordAfterSpace(line, 1 + Len(KwImport))
  ELSE NoMatch

\* /^(?:export\s+)?class\s+(\w+)/
JsClassMatch(line) ==
  LET b == SkipWhile(line, 1 + Len(KwExport), WhiteSpace)
  IN  IF /\ StartsWithAt(line, KwExport, 1)
         /\ b > 1 + Len(KwExport)
         /\ StartsWithAt(line, KwClass, b)
      THEN WordAfterSpace(line, b + Len(KwClass))
      ELSE IF StartsWithAt(line, KwClass, 1)
      THEN WordAfterSpace(line, 1 + Len(KwClass))
      ELSE NoMatch

\* the character of line at position i, or "" past its end
CharAt(line, i) ==
  IF i >= 1 /\ i <= Len(line) THEN line[i] ELSE ""

\* (?:async\s*)?\( at position e
JsParenTail(line, e) ==
  \/ /\ StartsWithAt(line, KwAsync, e)
     /\ CharAt(line, SkipWhile(line, e + Len(KwAsync), WhiteSpace)) = "("
  \/ CharAt(line, e) = "("

\* \w+\s*=> at position q
JsArrowParam(line, q) ==
  LET r == SkipWhile(line, q, WordChar)
  IN  r > q /\ StartsWithAt(line, Arrow, SkipWhile(line, r, WhiteSpace))

\* (?:async\s*)?\w+\s*=> at position e
JsArrowTail(line, e) ==
  \/ /\ StartsWithAt(line, KwAsync, e)
     /\ JsArrowParam(line, SkipWhile(line, e + Len(KwAsync), WhiteSpace))
  \/ JsArrowParam(line, e)

\* the three alternatives of the function pattern, tried at position p:
\*   function\s+(\w+)
\*   const\s+(\w+)\s*=\s*(?:async\s*)?\(
\*   const\s+(\w+)\s*=\s*(?:async\s*)?\w+\s*=>
JsFuncMatchAt(line, p) ==
  IF StartsWithAt(line, KwFunction, p)
  THEN WordAfterSpace(line, p + Len(KwFunction))
  ELSE IF StartsWithAt(line, KwConst, p)
  THEN LET name == WordAfterSpace(line, p + Len(KwConst))
           b    == SkipWhile(line, p + Len(KwConst), WhiteSpace)
           d    == SkipWhile(line, b + Len(name), WhiteSpace)
           e    == SkipWhile(line, d + 1, WhiteSpace)
       IN  IF /\ name # NoMatch
              /\ CharAt(line, d) = "="
              /\ (JsParenTail(line, e) \/ JsArrowTail(line, e))
           THEN name
           ELSE NoMatch
  ELSE NoMatch

\* line.match(/function\s+(\w+)|const...\(|const...=>/): unanchored, so the
\* leftmost position at which an alternative matches decides;
\* name = funcMatch[1] || funcMatch[2] || funcMatch[3]
RECURSIVE JsFuncScan(_, _)
JsFuncScan(line, p) ==
  IF p > Len(line) THEN NoMatch
  ELSE IF JsFuncMatchAt(line, p) # NoMatch THEN JsFuncMatchAt(line, p)
  ELSE JsFuncScan(line, p + 1)

JsFuncMatch(line) ==
  JsFuncScan(line, 1)

\* open(.+)close at position b, the group greedy: the text between the
\* opening character at b and the last closing character the group can reach
QuotedAt(line, b, open, close) ==
  LET m  == SkipWhile(line, b + 1, {line[k] : k \in 1..Len(line)} \ LineTerminator)
      qs == {q \in (b + 2)..(m - 1) : line[q] \in close}
  IN  IF CharAt(line, b) \in open /\ qs # {}
      THEN SubSeq(line, b + 1, (CHOOSE q \in qs : \A r \in qs : r <= q) - 1)
      ELSE NoMatch

\* from\s+['"](.+)['"] tried at position p
JsImportMatchAt(line, p) ==
  LET b == SkipWhile(line, p + Len(KwFrom), WhiteSpace)
  IN  IF StartsWithAt(line, KwFrom, p) /\ b > p + Len(KwFrom)
      THEN QuotedAt(line, b, {"'", "\""}, {"'", "\""})
      ELSE NoMatch

\* line.match(/from\s+['"](.+)['"]/): unanchored
RECURSIVE JsImportScan(_, _)
JsImportScan(line, p) ==
  IF p > Len(line) THEN NoMatch
  ELSE IF JsImportMatchAt(line, p) # NoMatch THEN JsImportMatchAt(line, p)
  ELSE JsImportScan(line, p + 1)

JsImportMatch(line) ==
  JsImportScan(line, 1)

\* /^\s*(?:class|struct)\s+(\w+)/
CppClassMatch(line) ==
  LET i == SkipWhile(line, 1, WhiteSpace)
  IN  IF StartsWithAt(line, KwClass, i)
      THEN WordAfterSpace(line, i + Len(KwClass))
      ELSE IF StartsWithAt(line, KwStruct, i)
      THEN WordAfterSpace(line, i + Len(KwStruct))
      ELSE NoMatch

\* (?:[\w:*&<>]+\s+)+([\w:]+)\s*\( from position i, `seen` type tokens
\* already taken.  A token ends at whitespace and '(' belongs to no token,
\* so the run of token characters at i is the name when '(' follows it
\* (after optional whitespace) and a further type token otherwise.
RECURSIVE CppFuncScan(_, _, _)
CppFuncScan(line, i, seen) ==
  LET j == SkipWhile(line, i, TypeChar)
      k == SkipWhile(line, j, WhiteSpace)
  IN  IF j = i THEN NoMatch
      ELSE IF CharAt(line, k) = "("
      THEN IF seen >= 1 /\ \A x \in i..(j - 1) : line[x] \in NameChar
           THEN SubSeq(line, i, j - 1)
           ELSE NoMatch
      ELSE IF k = j THEN NoMatch
      ELSE CppFuncScan(line, k, seen + 1)

\* /^\s*(?:[\w:*&<>]+\s+)+([\w:]+)\s*\(/
CppFuncMatch(line) ==
  CppFuncScan(line, SkipWhile(line, 1, WhiteSpace), 0)

\* /^#include\s+[<"](.+)[>"]/
CppIncludeMatch(line) ==
  LET b == SkipWhile(line, 1 + Len(KwInclude), WhiteSpace)
  IN  IF StartsWithAt(line, KwInclude, 1) /\ b > 1 + Len(KwInclude)
      THEN QuotedAt(line, b, {"<", "\""}, {">", "\""})
      ELSE NoMatch

(***************************************************************************)
(* determineEndLine                                                        *)
(***************************************************************************)
\* the 20 of Math.min(startIdx + 20, lines.length)
FallbackSpan ==
  20

\* IndentScan with < in place of <=: a line of the same indentation does
\* not end the block
RECURSIVE IndentScanStrict(_, _, _)
IndentScanStrict(lines, i, startIndent) ==
  IF i >= Len(lines) THEN Len(lines)
  ELSE LET line   == lines[i + 1]
           indent == SearchNonSpace(line)
       IN  IF Trim(line) = <<>> THEN IndentScanStrict(lines, i + 1, startIndent)
           ELSE IF indent > -1 /\ indent < startIndent THEN i
           ELSE IndentScanStrict(lines, i + 1, startIndent)

\* for (let i = startIdx + 1; i < lines.length; i++) of the indentation strategy
RECURSIVE IndentScan(_, _, _)
IndentScan(lines, i, startIndent) ==
  IF i >= Len(lines) THEN Len(lines)
  ELSE LET line   == lines[i + 1]
           indent == SearchNonSpace(line)
       IN  IF Trim(line) = <<>> THEN IndentScan(lines, i + 1, startIndent)
           ELSE IF indent > -1 /\ indent <= startIndent THEN i
           ELSE IndentScan(lines, i + 1, startIndent)

\* BraceFallback without the Math.min
BraceFallbackNoClamp(startIdx, n) ==
  startIdx + FallbackSpan

\* return Math.min(startIdx + 20, lines.length)
BraceFallback(startIdx, n) ==
  Min(startIdx + FallbackSpan, n)

\* BraceClosed without the foundBrace flag
BraceClosedNoFlag(foundBrace, braceCount) ==
  braceCount <= 0

\* if (foundBrace && braceCount <= 0) return i + 1
BraceClosed(foundBrace, braceCount) ==
  foundBrace /\ braceCount <= 0

\* for (let i = startIdx; i < lines.length; i++) of the brace strategy
RECURSIVE BraceScan(_, _, _, _, _)
BraceScan(lines, startIdx, i, braceCount, foundBrace) ==
  IF i >= Len(lines) THEN BraceFallback(startIdx, Len(lines))
  ELSE LET line  == lines[i + 1]
           count == braceCount + CountChar(line, "{") - CountChar(line, "}")
           found == foundBrace \/ CountChar(line, "{") > 0
       IN  IF BraceClosed(found, count) THEN i + 1
           ELSE BraceScan(lines, startIdx, i + 1, count, found)

\* the indentation strategy: if (type === 'PYTHON') { ... }
IndentEnd(lines, startIdx) ==
  LET startIndent == SearchNonSpace(lines[startIdx + 1])
  IN  IF startIndent = -1 THEN startIdx + 1
      ELSE IndentScan(lines, startIdx + 1, startIndent)

determineEndLine(lines, startIdx, type) ==
  IF type = "PYTHON" THEN IndentEnd(lines, startIdx)
  ELSE BraceScan(lines, startIdx, startIdx, 0, FALSE)

(***************************************************************************)
(* Node ids, nodes and links                                               *)
(***************************************************************************)
TextFILE ==
  <<"F", "I", "L", "E">>

TextCLASS ==
  <<"C", "L", "A", "S", "S">>

TextFUNCTION ==
  <<"F", "U", "N", "C", "T", "I", "O", "N">>

\* `${type}:${file}:${name}`
generateId(type, name, file) ==
  type \o <<":">> \o file \o <<":">> \o name

\* FileId with the short name of the file in place of its path
FileIdByName(path) ==
  TextFILE \o <<":">> \o LastSegment(path)

\* `FILE:${f.path}`
FileId(path) ==
  TextFILE \o <<":">> \o path

\* the node pushed for a file in the first pass
FileNode(f) ==
  [id        |-> FileId(f.path),
   label     |-> f.name,
   type      |-> "FILE",
   file      |-> f.path,
   startLine |-> 1,
   endLine   |-> Len(SplitLines(f.content)),
   details   |-> <<"F", "i", "l", "e", ":", " ">> \o f.path]

\* ClassNode with the short name of the file in the file field
ClassNodeShortName(f, name, lineNum, endLine, what) ==
  [id        |-> generateId(TextCLASS, name, f.path),
   label     |-> name,
   type      |-> "CLASS",
   file      |-> f.name,
   startLine |-> lineNum,
   endLine   |-> endLine,
   details   |-> what \o f.name]

\* the node pushed for a class or struct
ClassNode(f, name, lineNum, endLine, what) ==
  [id        |-> generateId(TextCLASS, name, f.path),
   label     |-> name,
   type      |-> "CLASS",
   file      |-> f.path,
   startLine |-> lineNum,
   endLine   |-> endLine,
   details   |-> what \o f.name]

\* the node pushed for a function
FunctionNode(f, name, lineNum, endLine) ==
  [id        |-> generateId(TextFUNCTION, name, f.path),
   label     |-> name,
   type      |-> "FUNCTION",
   file      |-> f.path,
   startLine |-> lineNum,
   endLine   |-> endLine,
   details   |-> <<"F", "u", "n", "c", "t", "i", "o", "n", " ", "d", "e", "f", "i", "n", "i", "t", "i", "o", "n", " ", "i", "n", " ">> \o f.name]

DetailsClass ==
  <<"C", "l", "a", "s", "s", " ", "d", "e", "f", "i", "n", "i", "t", "i", "o", "n", " ", "i", "n", " ">>

DetailsClassStruct ==
  <<"C", "l", "a", "s", "s", "/", "S", "t", "r", "u", "c", "t", " ", "d", "e", "f", "i", "n", "i", "t", "i", "o", "n", " ", "i", "n", " ">>

Link(source, target, type) ==
  [source |-> source, target |-> target, type |-> type]

\* Map.prototype.set on the path -> id map, kept in insertion order
MapSet(m, k, v) ==
  IF \E i \in 1..Len(m) : m[i].key = k
  THEN [i \in 1..Len(m) |-> IF m[i].key = k THEN [key |-> k, value |-> v] ELSE m[i]]
  ELSE Append(m, [key |-> k, value |-> v])

\* Map.prototype.get
MapGet(m, k) ==
  m[CHOOSE i \in 1..Len(m) : m[i].key = k].value

\* the IMPORT links pushed by a loop over fileNodes.entries(): one for each
\* of the entries that satisfy the condition of the loop, in map order
ImportLinks(hits, fileId) ==
  [i \in 1..Len(hits) |-> Link(fileId, hits[i].value, "IMPORT")]

(***************************************************************************)
(* The body of lines.forEach((line, index) => ...): each operator takes    *)
(* the accumulated [nodes, links, currentClass] and returns them after the *)
(* branch it models.  currentClass is <<>> for null and <<node>> otherwise.*)
(***************************************************************************)
\* ClassDepth with === in place of >=
ClassDepthExact(depth) ==
  depth = 2

\* if (depth >= 2)
ClassDepth(depth) ==
  depth >= 2

\* FunctionDepth with === in place of >=
FunctionDepthExact(depth) ==
  depth = 3

\* if (depth >= 3)
FunctionDepth(depth) ==
  depth >= 3

\* IsMethod with >= in place of >
IsMethodAnyIndent(indent, currentClass) ==
  indent >= 0 /\ currentClass # <<>>

\* if (indent > 0 && currentClass)
IsMethod(indent, currentClass) ==
  indent > 0 /\ currentClass # <<>>

\* PushContained with nodes.unshift(node) in place of nodes.push(node)
PushContainedFront(acc, node, source, cls) ==
  [nodes        |-> <<node>> \o acc.nodes,
   links        |-> Append(acc.links, Link(source, node.id, "CONTAINS")),
   currentClass |-> cls]

\* nodes.push(node); links.push({ source, target: node.id, type: 'CONTAINS' })
PushContained(acc, node, source, cls) ==
  [nodes        |-> Append(acc.nodes, node),
   links        |-> Append(acc.links, Link(source, node.id, "CONTAINS")),
   currentClass |-> cls]

\* Python, the class branch once classMatch has succeeded
PyClassStep(f, lines, index, fileId, name, acc) ==
  LET node == ClassNode(f, name, index + 1,
                        determineEndLine(lines, index, "PYTHON"), DetailsClass)
  IN  PushContained(acc, node, fileId, <<node>>)

\* PyFuncStep with endLine + 1 as the end line of the node, as lineNum is
\* index + 1
PyFuncStepEndPlusOne(f, lines, index, depth, fileId, acc) ==
  LET line   == lines[index + 1]
      name   == IF FunctionDepth(depth) THEN PyFuncMatch(line) ELSE NoMatch
      node   == FunctionNode(f, name, index + 1,
                             determineEndLine(lines, index, "PYTHON") + 1)
      indent == SearchNonSpace(line)
  IN  IF name = NoMatch THEN acc
      ELSE IF IsMethod(indent, acc.currentClass)
      THEN PushContained(acc, node, acc.currentClass[1].id, acc.currentClass)
      ELSE PushContained(acc, node, fileId, <<>>)

\* Python, the function branch
PyFuncStep(f, lines, index, depth, fileId, acc) ==
  LET line   == lines[index + 1]
      name   == IF FunctionDepth(depth) THEN PyFuncMatch(line) ELSE NoMatch
      node   == FunctionNode(f, name, index + 1,
                             determineEndLine(lines, index, "PYTHON"))
      indent == SearchNonSpace(line)
  IN  IF name = NoMatch THEN acc
      ELSE IF IsMethod(indent, acc.currentClass)
      THEN PushContained(acc, node, acc.currentClass[1].id, acc.currentClass)
      ELSE PushContained(acc, node, fileId, <<>>)

\* PyImportHit without the test that excludes the importing file
PyImportHitSelf(path, moduleName, self) ==
  Includes(path, moduleName)

\* if (path.includes(moduleName) && path !== f.path)
PyImportHit(path, moduleName, self) ==
  Includes(path, moduleName) /\ path # self

\* Python, the import branch
PyImportStep(f, line, fileId, fileNodes, acc) ==
  LET moduleName == PyImportMatch(line)
      Hit(e)     == PyImportHit(e.key, moduleName, f.path)
  IN  IF moduleName = NoMatch THEN acc
      ELSE [acc EXCEPT !.links = @ \o ImportLinks(SelectSeq(fileNodes, Hit), fileId)]

\* if (f.path.endsWith('.py')) { ... }: a class match returns before the
\* function and import branches
PythonLine(f, lines, index, depth, fileNodes, acc) ==
  LET line      == lines[index + 1]
      fileId    == MapGet(fileNodes, f.path)
      className == IF ClassDepth(depth) THEN PyClassMatch(line) ELSE NoMatch
  IN  IF className # NoMatch
      THEN PyClassStep(f, lines, index, fileId, className, acc)
      ELSE PyImportStep(f, line, fileId, fileNodes,
                        PyFuncStep(f, lines, index, depth, fileId, acc))

\* JS/TS, the class branch
JsClassStep(f, lines, index, depth, fileId, acc) ==
  LET name == IF ClassDepth(depth) THEN JsClassMatch(lines[index + 1]) ELSE NoMatch
      node == ClassNode(f, name, index + 1,
                        determineEndLine(lines, index, "JS"), DetailsClass)
  IN  IF name = NoMatch THEN acc
      ELSE PushContained(acc, node, fileId, acc.currentClass)

\* JS/TS, the function branch
JsFuncStep(f, lines, index, depth, fileId, acc) ==
  LET name == IF FunctionDepth(depth) THEN JsFuncMatch(lines[index + 1]) ELSE NoMatch
      node == FunctionNode(f, name, index + 1,
                           determineEndLine(lines, index, "JS"))
  IN  IF name = NoMatch THEN acc
      ELSE PushContained(acc, node, fileId, acc.currentClass)

\* JS/TS, the import branch
JsImportStep(f, line, fileId, fileNodes, acc) ==
  LET pathPart == JsImportMatch(line)
      namePart == LastSegment(pathPart)
      Hit(e)   == Includes(e.key, namePart) /\ e.key # f.path
  IN  IF pathPart = NoMatch \/ namePart = <<>> THEN acc
      ELSE [acc EXCEPT !.links = @ \o ImportLinks(SelectSeq(fileNodes, Hit), fileId)]

\* else if (f.path.match(/\.(js|ts|jsx|tsx)$/)) { ... }
JsLine(f, lines, index, depth, fileNodes, acc) ==
  LET fileId == MapGet(fileNodes, f.path)
  IN  JsImportStep(f, lines[index + 1], fileId, fileNodes,
        JsFuncStep(f, lines, index, depth, fileId,
          JsClassStep(f, lines, index, depth, fileId, acc)))

\* C/C++, the class/struct branch
CppClassStep(f, lines, index, depth, fileId, acc) ==
  LET name == IF ClassDepth(depth) THEN CppClassMatch(lines[index + 1]) ELSE NoMatch
      node == ClassNode(f, name, index + 1,
                        determineEndLine(lines, index, "C_CPP"), DetailsClassStruct)
  IN  IF name = NoMatch THEN acc
      ELSE PushContained(acc, node, fileId, acc.currentClass)

\* CppIsDefinition without the test for a trailing semicolon
CppIsDefinitionNoSemicolon(name, line) ==
  name \notin keywords

\* if (!keywords.includes(name) && !line.trim().endsWith(';'))
CppIsDefinition(name, line) ==
  name \notin keywords /\ ~EndsWith(Trim(line), <<";">>)

\* C/C++, the function branch
CppFuncStep(f, lines, index, depth, fileId, acc) ==
  LET line == lines[index + 1]
      name == IF FunctionDepth(depth) THEN CppFuncMatch(line) ELSE NoMatch
      node == FunctionNode(f, name, index + 1,
                           determineEndLine(lines, index, "C_CPP"))
  IN  IF name = NoMatch \/ ~CppIsDefinition(name, line) THEN acc
      ELSE PushContained(acc, node, fileId, acc.currentClass)

\* C/C++, the include branch
CppIncludeStep(f, line, fileId, fileNodes, acc) ==
  LET includedPath == CppIncludeMatch(line)
      includedName == LastSegment(includedPath)
      Hit(e)       == EndsWith(e.key, includedName) /\ e.key # f.path
  IN  IF includedPath = NoMatch \/ includedName = <<>> THEN acc
      ELSE [acc EXCEPT !.links = @ \o ImportLinks(SelectSeq(fileNodes, Hit), fileId)]

\* else if (f.path.match(/\.(c|cpp|h|hpp|cc)$/)) { ... }
CppLine(f, lines, index, depth, fileNodes, acc) ==
  LET fileId == MapGet(fileNodes, f.path)
  IN  CppIncludeStep(f, lines[index + 1], fileId, fileNodes,
        CppFuncStep(f, lines, index, depth, fileId,
          CppClassStep(f, lines, index, depth, fileId, acc)))

\* f.path.endsWith('.py')
IsPy(path) ==
  EndsWith(path, ExtPy)

\* IsJs with the pattern /\.(js|ts|jsx|tsx)/, without the $ anchor
IsJsUnanchored(path) ==
  ~IsPy(path) /\ \E x \in ExtJs : Includes(path, x)

\* f.path.match(/\.(js|ts|jsx|tsx)$/), reached when the path is no .py path
IsJs(path) ==
  ~IsPy(path) /\ \E x \in ExtJs : EndsWith(path, x)

\* f.path.match(/\.(c|cpp|h|hpp|cc)$/), reached when neither branch above is
IsCpp(path) ==
  ~IsPy(path) /\ ~IsJs(path) /\ \E x \in ExtCpp : EndsWith(path, x)

\* if (!trimmed) return
IsBlankLine(line) ==
  Trim(line) = <<>>

(***************************************************************************)
(* Inputs                                                                  *)
(***************************************************************************)
\* the largest number of files of an input
MaxFiles ==
  2

\* the largest number of lines of all files of an input together
MaxTotalLines ==
  3

\* the values of the depth slider: min="1" max="3"
Depths ==
  {1, 2, 3}

\* the paths files are drawn from, one or two per family and one of no family
Paths ==
  {<<"a", ".", "p", "y">>,
   <<"b", ".", "p", "y">>,
   <<"m", ".", "j", "s">>,
   <<"f", ".", "c">>,
   <<"i", "n", "c", "/", "b", ".", "h">>,
   <<"l", "i", "b", ".", "j", "s", "o", "n">>}

\* lines of Python text
PyLines ==
  {<<"c", "l", "a", "s", "s", " ", "A", ":">>,
   <<" ", " ", " ", " ", "d", "e", "f", " ", "m", "(", "s", "e", "l", "f", ")", ":">>,
   <<"d", "e", "f", " ", "m", "(", ")", ":">>,
   <<"i", "m", "p", "o", "r", "t", " ", "b">>,
   <<"f", "r", "o", "m", " ", "i", "n", "c", " ", "i", "m", "p", "o", "r", "t", " ", "b">>,
   <<>>,
   <<" ", " ", " ", " ", " ", " ", " ", " ", "p", "a", "s", "s">>}

\* lines of JS/TS text
JsLines ==
  {<<"c", "l", "a", "s", "s", " ", "A", " ", "{">>,
   <<"f", "u", "n", "c", "t", "i", "o", "n", " ", "f", "(", ")", " ", "{">>,
   <<"}">>,
   <<"c", "o", "n", "s", "t", " ", "g", " ", "=", " ", "(", "x", ")", " ", "=", ">", " ", "x">>,
   <<"i", "m", "p", "o", "r", "t", " ", "x", " ", "f", "r", "o", "m", " ", "'", ".", "/", "b", "'">>}

\* lines of C/C++ text
CppLines ==
  {<<"s", "t", "r", "u", "c", "t", " ", "S", " ", "{">>,
   <<"v", "o", "i", "d", " ", "f", "(", "i", "n", "t", " ", "x", ")", ";">>,
   <<"v", "o", "i", "d", " ", "f", "(", "i", "n", "t", " ", "x", ")", " ", "{">>,
   <<"}">>,
   <<"e", "l", "s", "e", " ", "i", "f", " ", "(", "x", ")", " ", "{">>,
   <<"#", "i", "n", "c", "l", "u", "d", "e", " ", "\"", "b", ".", "h", "\"">>}

\* lines of a file of no family
OtherLines ==
  {<<"c", "l", "a", "s", "s", " ", "A", " ", "{">>,
   <<"i", "m", "p", "o", "r", "t", " ", "b">>}

\* the lines the content of a file with this path is drawn from
LinePool(path) ==
  IF IsPy(path) THEN PyLines
  ELSE IF IsJs(path) THEN JsLines
  ELSE IF IsCpp(path) THEN CppLines
  ELSE OtherLines

\* lines.join('\n')
RECURSIVE JoinLines(_)
JoinLines(ls) ==
  IF Len(ls) = 0 THEN <<>>
  ELSE IF Len(ls) = 1 THEN ls[1]
  ELSE ls[1] \o <<"\n">> \o JoinLines(SubSeq(ls, 2, Len(ls)))

\* a CodeFile as FileUploader builds it: name is the last segment of path
MkFile(path, content) ==
  [name |-> LastSegment(path), path |-> path, content |-> content]

\* the texts of k lines over a pool
TextsOf(pool, k) ==
  {JoinLines(ls) : ls \in [1..k -> pool]}

\* the end-to-end scenario of the specification: a.py and b.py
EndToEndFiles ==
  <<MkFile(<<"a", ".", "p", "y">>,
           <<"i", "m", "p", "o", "r", "t", " ", "b", "\n", "c", "l", "a", "s", "s", " ", "A", ":", "\n", " ", " ", " ", " ", "d", "e", "f", " ", "m", "(", "s", "e", "l", "f", ")", ":", "\n", " ", " ", " ", " ", " ", " ", " ", " ", "p", "a", "s", "s", "\n">>),
    MkFile(<<"b", ".", "p", "y">>, <<"x", " ", "=", " ", "1", "\n">>)>>

\* split('\n').length of every file of fs, added up
RECURSIVE TotalLines(_)
TotalLines(fs) ==
  IF fs = <<>> THEN 0
  ELSE Len(SplitLines(Head(fs).content)) + TotalLines(Tail(fs))

(***************************************************************************)
(* State                                                                   *)
(***************************************************************************)
VARIABLES
  files,         \* filesData of FileUploader, then the files argument
  depth,         \* the depth state of App, then the depth argument
  pc,            \* "load", "files": first pass, "parse": second pass, "done",
                 \* "idle": no analysis is modelled
  fi,            \* 1-based position of the file the current pass is at
  li,            \* 0-based index of the next line of the current file
  lines,         \* const lines of the current file, <<>> between files
  nodes,         \* const nodes: GraphNode[]
  links,         \* const links: GraphLink[]
  fileNodes,     \* const fileNodes: Map<string, string>, in insertion order
  currentClass,  \* let currentClass: <<>> for null, <<node>> otherwise
  summary,       \* the numbers the summary text reports, <<>> before it exists
  prev,          \* the results returned by earlier invocations, oldest first
  estIn,         \* the arguments of a direct call of determineEndLine
  estOut,        \* its result, -1 before the call
  analysis,      \* the analysis state of App: <<>> for null, <<result>> otherwise
  selectedNode,  \* the selectedNode state of App: <<>> for null, <<node>> otherwise
  loading,       \* the loading state of App
  pending,       \* the results awaited by started runAnalysis calls, oldest first
  snipIn,        \* the node and the files of a call of getCodeSnippet
  snipOut        \* its result, <<>> before the call

vars ==
  <<files, depth, pc, fi, li, lines, nodes, links, fileNodes, currentClass,
    summary, prev, estIn, estOut, analysis, selectedNode, loading, pending,
    snipIn, snipOut>>

\* the state of App besides files and depth, and the call of getCodeSnippet
uiVars ==
  <<analysis, selectedNode, loading, pending, snipIn, snipOut>>

\* const [analysis, ...] = useState(null), const [loading, ...] =
\* useState(false), const [selectedNode, ...] = useState(null); no run started
AppIdle ==
  /\ analysis = <<>>
  /\ selectedNode = <<>>
  /\ loading = FALSE
  /\ pending = <<>>

\* no call of getCodeSnippet is under way
SnipIdle ==
  /\ snipIn = <<>>
  /\ snipOut = <<>>

\* no direct call of determineEndLine is under way
EstIdle ==
  /\ estIn = [lines |-> <<>>, startIdx |-> 0, type |-> "NONE"]
  /\ estOut = -1

\* const [depth, setDepth] = useState<number>(3)
InitialDepth ==
  3

\* no analysis has been entered
NotEntered ==
  /\ fi = 1
  /\ li = 0
  /\ lines = <<>>
  /\ nodes = <<>>
  /\ links = <<>>
  /\ fileNodes = <<>>
  /\ currentClass = <<>>
  /\ summary = <<>>

Init ==
  /\ files = <<>>
  /\ depth = InitialDepth
  /\ pc = "load"
  /\ NotEntered
  /\ prev = <<>>
  /\ EstIdle
  /\ AppIdle
  /\ SnipIdle

(***************************************************************************)
(* FileUploader.handleFileChange and the call of analyzeCodebase           *)
(***************************************************************************)
\* one iteration of the loop over fileList that passes the extension filter
\* and reads the text: filesData.push({ name, path, content })
AddFile ==
  /\ pc = "load"
  /\ Len(files) < MaxFiles
  /\ \E p \in Paths \ {files[i].path : i \in 1..Len(files)} :
       \E k \in 1..(MaxTotalLines - TotalLines(files)) :
         \E c \in TextsOf(LinePool(p), k) :
           files' = Append(files, MkFile(p, c))
  /\ UNCHANGED <<depth, pc, fi, li, lines, nodes, links, fileNodes,
                 currentClass, summary, prev, estIn, estOut, uiVars>>

\* the directory of the end-to-end scenario is read
LoadEndToEnd ==
  /\ pc = "load"
  /\ files = <<>>
  /\ files' = EndToEndFiles
  /\ UNCHANGED <<depth, pc, fi, li, lines, nodes, links, fileNodes,
                 currentClass, summary, prev, estIn, estOut, uiVars>>

\* Enter with nodes and links kept from the invocation before, as if the
\* two arrays were declared outside the function
EnterKeepArrays(d) ==
  /\ depth' = d
  /\ pc' = IF files = <<>> THEN "parse" ELSE "files"
  /\ fi' = 1
  /\ li' = 0
  /\ lines' = <<>>
  /\ nodes' = nodes
  /\ links' = links
  /\ fileNodes' = <<>>
  /\ summary' = <<>>
  /\ UNCHANGED <<files, currentClass, estIn, estOut, uiVars>>

\* analyzeCodebase(files, d) is entered: the fresh nodes, links and
\* fileNodes of lines 51-53
Enter(d) ==
  /\ depth' = d
  /\ pc' = IF files = <<>> THEN "parse" ELSE "files"
  /\ fi' = 1
  /\ li' = 0
  /\ lines' = <<>>
  /\ nodes' = <<>>
  /\ links' = <<>>
  /\ fileNodes' = <<>>
  /\ summary' = <<>>
  /\ UNCHANGED <<files, currentClass, estIn, estOut, uiVars>>

\* the loaded files are analysed at the depth the slider is set to
Invoke ==
  /\ pc = "load"
  /\ \E d \in Depths : Enter(d)
  /\ UNCHANGED prev

(***************************************************************************)
(* analyzeCodebase, one callback of a forEach per step                     *)
(***************************************************************************)
\* 1. Create Nodes for all files first: one callback of files.forEach
CreateFileNode ==
  /\ pc = "files"
  /\ fi <= Len(files)
  /\ nodes' = Append(nodes, FileNode(files[fi]))
  /\ fileNodes' = MapSet(fileNodes, files[fi].path, FileId(files[fi].path))
  /\ IF fi = Len(files)
     THEN pc' = "parse" /\ fi' = 1
     ELSE pc' = pc /\ fi' = fi + 1
  /\ UNCHANGED <<files, depth, li, lines, links, currentClass, summary, prev,
                 estIn, estOut, uiVars>>

\* BeginFile with currentClass declared outside the callback of the file
BeginFileKeepClass ==
  /\ pc = "parse"
  /\ fi <= Len(files)
  /\ lines = <<>>
  /\ lines' = SplitLines(files[fi].content)
  /\ currentClass' = currentClass
  /\ li' = 0
  /\ UNCHANGED <<files, depth, pc, fi, nodes, links, fileNodes, summary, prev,
                 estIn, estOut, uiVars>>

\* 2. the start of one callback of the second files.forEach: lines 72-76
BeginFile ==
  /\ pc = "parse"
  /\ fi <= Len(files)
  /\ lines = <<>>
  /\ lines' = SplitLines(files[fi].content)
  /\ currentClass' = <<>>
  /\ li' = 0
  /\ UNCHANGED <<files, depth, pc, fi, nodes, links, fileNodes, summary, prev,
                 estIn, estOut, uiVars>>

\* the accumulated values the line callbacks work on
Acc ==
  [nodes |-> nodes, links |-> links, currentClass |-> currentClass]

\* one callback of lines.forEach has returned `acc`; after the last line the
\* callback of the file returns too
LineDone(acc) ==
  /\ nodes' = acc.nodes
  /\ links' = acc.links
  /\ currentClass' = acc.currentClass
  /\ IF li + 1 = Len(lines)
     THEN lines' = <<>> /\ li' = 0 /\ fi' = fi + 1
     ELSE lines' = lines /\ li' = li + 1 /\ fi' = fi
  /\ UNCHANGED <<files, depth, pc, fileNodes, summary, prev, estIn, estOut, uiVars>>

\* a line callback is about to run
AtLine ==
  /\ pc = "parse"
  /\ lines # <<>>

\* if (!trimmed) return
SkipBlankLine ==
  /\ AtLine
  /\ IsBlankLine(lines[li + 1])
  /\ LineDone(Acc)

\* --- PYTHON PARSING ---
ParsePythonLine ==
  /\ AtLine
  /\ ~IsBlankLine(lines[li + 1])
  /\ IsPy(files[fi].path)
  /\ LineDone(PythonLine(files[fi], lines, li, depth, fileNodes, Acc))

\* --- JS/TS PARSING ---
ParseJsLine ==
  /\ AtLine
  /\ ~IsBlankLine(lines[li + 1])
  /\ IsJs(files[fi].path)
  /\ LineDone(JsLine(files[fi], lines, li, depth, fileNodes, Acc))

\* --- C/C++ PARSING ---
ParseCppLine ==
  /\ AtLine
  /\ ~IsBlankLine(lines[li + 1])
  /\ IsCpp(files[fi].path)
  /\ LineDone(CppLine(files[fi], lines, li, depth, fileNodes, Acc))

\* a non-blank line of a file of no family: no branch is taken
SkipOtherLine ==
  /\ AtLine
  /\ ~IsBlankLine(lines[li + 1])
  /\ ~IsPy(files[fi].path) /\ ~IsJs(files[fi].path) /\ ~IsCpp(files[fi].path)
  /\ LineDone(Acc)

\* CountType counting the distinct ids in place of the entries
CountTypeDistinct(ns, t) ==
  Cardinality({ns[i].id : i \in {j \in 1..Len(ns) : ns[j].type = t}})

\* nodes.filter(n => n.type === t).length
CountType(ns, t) ==
  Cardinality({i \in 1..Len(ns) : ns[i].type = t})

\* the values interpolated into the summary text
Summary(d, fs, ns) ==
  [depth     |-> d,
   files     |-> Len(fs),
   classes   |-> CountType(ns, "CLASS"),
   functions |-> CountType(ns, "FUNCTION")]

\* Summary generation and return: lines 295-304
Finish ==
  /\ pc = "parse"
  /\ fi > Len(files)
  /\ summary' = Summary(depth, files, nodes)
  /\ pc' = "done"
  /\ UNCHANGED <<files, depth, fi, li, lines, nodes, links, fileNodes,
                 currentClass, prev, estIn, estOut, uiVars>>

Next ==
  \/ AddFile
  \/ LoadEndToEnd
  \/ Invoke
  \/ CreateFileNode
  \/ BeginFile
  \/ SkipBlankLine
  \/ ParsePythonLine
  \/ ParseJsLine
  \/ ParseCppLine
  \/ SkipOtherLine
  \/ Finish

Spec ==
  Init /\ [][Next]_vars

(***************************************************************************)
(* Repeated invocation: analyzeCodebase is called again on the same files  *)
(* (the effect of App runs it again when the depth changes)                *)
(***************************************************************************)
\* the largest number of invocations on one file set
MaxRuns ==
  2

\* the value an invocation returns, with the depth it was asked for
Result ==
  [nodes |-> nodes, links |-> links, summary |-> summary, depth |-> depth]

\* analyzeCodebase is called again after it has returned
Reinvoke ==
  /\ pc = "done"
  /\ Len(prev) + 1 < MaxRuns
  /\ prev' = Append(prev, Result)
  /\ \E d \in Depths : Enter(d)

NextRerun ==
  \/ Next
  \/ Reinvoke

SpecRerun ==
  Init /\ [][NextRerun]_vars

(***************************************************************************)
(* Direct calls of analyzeCodebase(files, depth) with any integer depth:   *)
(* the parameter is a number that is not validated                         *)
(***************************************************************************)
\* depth: number = 3, with values below and above the range of the slider
AnyDepths ==
  {0, 1, 2, 3, 4}

\* analyzeCodebase(files, d) is called on the loaded files
InvokeDirect ==
  /\ pc = "load"
  /\ \E d \in AnyDepths : Enter(d)
  /\ UNCHANGED prev

\* analyzeCodebase(files, d) is called again after it has returned
ReinvokeDirect ==
  /\ pc = "done"
  /\ Len(prev) + 1 < MaxRuns
  /\ prev' = Append(prev, Result)
  /\ \E d \in AnyDepths : Enter(d)

NextDirect ==
  \/ AddFile
  \/ LoadEndToEnd
  \/ InvokeDirect
  \/ CreateFileNode
  \/ BeginFile
  \/ SkipBlankLine
  \/ ParsePythonLine
  \/ ParseJsLine
  \/ ParseCppLine
  \/ SkipOtherLine
  \/ Finish
  \/ ReinvokeDirect

SpecDirect ==
  Init /\ [][NextDirect]_vars

(***************************************************************************)
(* Direct calls of determineEndLine                                        *)
(***************************************************************************)
\* the largest number of drawn lines of a direct call
MaxEstLines ==
  3

\* lines the indentation strategy is called on
IndentEstLines ==
  {<<"c", "l", "a", "s", "s", " ", "A", ":">>,
   <<" ", " ", " ", " ", "d", "e", "f", " ", "f", "(", ")", ":">>,
   <<" ", " ", " ", " ", " ", " ", " ", " ", "p", "a", "s", "s">>,
   <<"c", "l", "a", "s", "s", " ", "B", ":">>,
   <<>>,
   <<" ", " ">>,
   <<"\t", "x", " ", "=", " ", "1">>}

\* lines the brace strategy is called on
BraceEstLines ==
  {<<"v", "o", "i", "d", " ", "f", "(", ")", " ", "{">>,
   <<" ", " ", "i", "f", " ", "(", "x", ")", " ", "{">>,
   <<" ", " ", "}">>,
   <<"}">>,
   <<"v", "o", "i", "d", " ", "g", "(", ")", " ", "{", "}">>,
   <<"x", ";">>,
   <<"}", " ", "e", "l", "s", "e", " ", "{">>}

\* the example of the indentation strategy in the specification
IndentExample ==
  <<<<"c", "l", "a", "s", "s", " ", "A", ":">>,
    <<" ", " ", " ", " ", "d", "e", "f", " ", "f", "(", ")", ":">>,
    <<" ", " ", " ", " ", " ", " ", " ", " ", "p", "a", "s", "s">>,
    <<"c", "l", "a", "s", "s", " ", "B", ":">>>>

\* the example of the brace strategy in the specification
BraceExample ==
  <<<<"v", "o", "i", "d", " ", "f", "(", ")", " ", "{">>,
    <<" ", " ", "i", "f", " ", "(", "x", ")", " ", "{">>,
    <<" ", " ", "}">>,
    <<"}">>,
    <<"v", "o", "i", "d", " ", "g", "(", ")", " ", "{", "}">>>>

\* FallbackSpan indented lines without a brace, appended to make a text
\* longer than the fallback reaches
Padding ==
  [i \in 1..FallbackSpan |-> <<" ", " ", "x">>]

\* the type argument: 'PYTHON' | 'JS' | 'C_CPP'
EstTypes ==
  {"PYTHON", "JS", "C_CPP"}

\* the texts drawn for a direct call of strategy t, before padding
EstHeads(t) ==
  UNION {[1..k -> IF t = "PYTHON" THEN IndentEstLines ELSE BraceEstLines] :
           k \in 1..MaxEstLines}
    \cup {IndentExample, BraceExample}

\* the calls on the text ls whose drawn part has n lines: at every drawn
\* line and at the last line
EstCalls(t, ls, n) ==
  {[lines |-> ls, startIdx |-> s, type |-> t] :
     s \in (0..(n - 1)) \cup {Len(ls) - 1}}

\* the calls determineEndLine(lines, startIdx, type), always with a valid index
EstInputs ==
  UNION {
    UNION {EstCalls(t, h, Len(h)) \cup EstCalls(t, h \o Padding, Len(h)) :
           h \in EstHeads(t)} :
    t \in EstTypes}

InitEst ==
  /\ files = <<>>
  /\ depth = InitialDepth
  /\ pc = "idle"
  /\ NotEntered
  /\ prev = <<>>
  /\ estIn \in EstInputs
  /\ estOut = -1
  /\ AppIdle
  /\ SnipIdle

\* the call is made and returns
Estimate ==
  /\ pc = "idle"
  /\ estOut = -1
  /\ estOut' = determineEndLine(estIn.lines, estIn.startIdx, estIn.type)
  /\ UNCHANGED <<files, depth, pc, fi, li, lines, nodes, links, fileNodes,
                 currentClass, summary, prev, estIn, uiVars>>

NextEst ==
  Estimate

SpecEst ==
  InitEst /\ [][NextEst]_vars

(***************************************************************************)
(* getCodeSnippet of App.  The optional fields file, startLine and endLine *)
(* of its node are <<>> for undefined and <<value>> otherwise.             *)
(***************************************************************************)
\* "// File content not found locally."
TextNotFound ==
  <<"/", "/", " ", "F", "i", "l", "e", " ", "c", "o", "n", "t", "e", "n", "t", " ", "n", "o", "t", " ", "f", "o", "u", "n", "d", " ", "l", "o", "c", "a", "l", "l", "y", ".">>

\* !v for an optional number: undefined and 0 are falsy
Falsy(v) ==
  v = <<>> \/ v[1] = 0

\* files.find(f => f.path === node.file): <<>> for undefined
FindFile(fs, file) ==
  LET hits == SelectSeq(fs, LAMBDA f : file # <<>> /\ f.path = file[1])
  IN  IF hits = <<>> THEN <<>> ELSE <<hits[1]>>

\* if (node.type === NodeType.FILE || !node.startLine || !node.endLine)
SnipWholeFile(node) ==
  node.type = "FILE" \/ Falsy(node.startLine) \/ Falsy(node.endLine)

\* SnipStart without the - 1
SnipStartOneBased(node) ==
  Max(0, node.startLine[1])

\* const start = Math.max(0, node.startLine - 1)
SnipStart(node) ==
  Max(0, node.startLine[1] - 1)

\* const end = Math.min(lines.length, node.endLine)
SnipEnd(node, n) ==
  Min(n, node.endLine[1])

\* SnipFallback with > in place of >=
SnipFallbackStrict(start, end) ==
  start > end

\* if (start >= end) return file.content
SnipFallback(start, end) ==
  start >= end

\* lines.slice(start, end) for 0 <= start < end <= lines.length
Slice(ls, start, end) ==
  SubSeq(ls, start + 1, end)

getCodeSnippet(node, fs) ==
  LET file == FindFile(fs, node.file)
  IN  IF file = <<>> THEN TextNotFound
      ELSE IF SnipWholeFile(node) THEN file[1].content
      ELSE LET ls    == SplitLines(file[1].content)
               start == SnipStart(node)
               end   == SnipEnd(node, Len(ls))
           IN  IF SnipFallback(start, end) THEN file[1].content
               ELSE JoinLines(Slice(ls, start, end))

\* the texts of the files a snippet is taken from: five lines, one line,
\* no character, and two lines the last of which is empty
SnipTexts ==
  {<<"a", "\n", "b", "b", "\n", "c", "\n", "d", "\n", "e">>,
   <<"x">>,
   <<>>,
   <<"p", "\n">>}

\* the file sets of App at the call: one file, or two
SnipFileSets ==
  {<<MkFile(<<"a", ".", "p", "y">>, t)>> : t \in SnipTexts}
    \cup {<<MkFile(<<"a", ".", "p", "y">>, t), MkFile(<<"f", ".", "c">>, u)>> : t, u \in SnipTexts}

\* startLine and endLine of the node: undefined, or a number below, inside
\* or above the lines of the texts
SnipLineNumbers ==
  {<<>>} \cup {<<n>> : n \in -1..7}

\* the nodes getCodeSnippet is called on
SnipNodes ==
  [type      : {"FILE", "CLASS", "FUNCTION"},
   file      : {<<>>, <<<<"a", ".", "p", "y">>>>, <<<<"f", ".", "c">>>>, <<<<"b", ".", "p", "y">>>>},
   startLine : SnipLineNumbers,
   endLine   : SnipLineNumbers]

InitSnip ==
  /\ files \in SnipFileSets
  /\ depth = InitialDepth
  /\ pc = "snippet"
  /\ NotEntered
  /\ prev = <<>>
  /\ EstIdle
  /\ AppIdle
  /\ snipIn \in {<<n>> : n \in SnipNodes}
  /\ snipOut = <<>>

\* {getCodeSnippet(selectedNode)} is evaluated
Snippet ==
  /\ pc = "snippet"
  /\ snipOut = <<>>
  /\ snipOut' = <<getCodeSnippet(snipIn[1], files)>>
  /\ UNCHANGED <<files, depth, pc, fi, li, lines, nodes, links, fileNodes,
                 currentClass, summary, prev, estIn, estOut, analysis,
                 selectedNode, loading, pending, snipIn>>

NextSnip ==
  Snippet

SpecSnip ==
  InitSnip /\ [][NextSnip]_vars

(***************************************************************************)
(* App: the files and depth states, the effect that runs the analysis     *)
(* when one of them changes, and the selection.  analyzeCodebase returns   *)
(* an already resolved promise, so the continuation of runAnalysis runs    *)
(* before the next event is handled.                                       *)
(***************************************************************************)
\* the callback of lines.forEach at one index
AnalyzeLine(f, ls, index, d, fns, acc) ==
  IF IsBlankLine(ls[index + 1]) THEN acc
  ELSE IF IsPy(f.path) THEN PythonLine(f, ls, index, d, fns, acc)
  ELSE IF IsJs(f.path) THEN JsLine(f, ls, index, d, fns, acc)
  ELSE IF IsCpp(f.path) THEN CppLine(f, ls, index, d, fns, acc)
  ELSE acc

\* lines.forEach from index on
RECURSIVE AnalyzeLines(_, _, _, _, _, _)
AnalyzeLines(f, ls, index, d, fns, acc) ==
  IF index >= Len(ls) THEN acc
  ELSE AnalyzeLines(f, ls, index + 1, d, fns,
                    AnalyzeLine(f, ls, index, d, fns, acc))

\* the second files.forEach from file i on: currentClass is null at the
\* start of each file
RECURSIVE AnalyzeFiles(_, _, _, _, _)
AnalyzeFiles(fs, i, d, fns, acc) ==
  IF i > Len(fs) THEN acc
  ELSE AnalyzeFiles(fs, i + 1, d, fns,
                    AnalyzeLines(fs[i], SplitLines(fs[i].content), 0, d, fns,
                                 [acc EXCEPT !.currentClass = <<>>]))

\* the first files.forEach: the path -> id map after files 1..i
RECURSIVE FileNodesOf(_, _)
FileNodesOf(fs, i) ==
  IF i = 0 THEN <<>>
  ELSE MapSet(FileNodesOf(fs, i - 1), fs[i].path, FileId(fs[i].path))

\* the value analyzeCodebase(fs, d) resolves to
analyzeCodebase(fs, d) ==
  LET first == [nodes        |-> [i \in 1..Len(fs) |-> FileNode(fs[i])],
                links        |-> <<>>,
                currentClass |-> <<>>]
      acc   == AnalyzeFiles(fs, 1, d, FileNodesOf(fs, Len(fs)), first)
  IN  [nodes |-> acc.nodes, links |-> acc.links,
       summary |-> Summary(d, fs, acc.nodes)]

\* the file sets FileUploader hands to onFilesLoaded: a directory without an
\* allowed file, the end-to-end scenario, one file of each family, and
\* two files of different families
AppFileSets ==
  {<<>>,
   EndToEndFiles,
   <<MkFile(<<"a", ".", "p", "y">>, <<"c", "l", "a", "s", "s", " ", "A", ":", "\n", " ", " ", " ", " ", "d", "e", "f", " ", "m", "(", "s", "e", "l", "f", ")", ":", "\n", "d", "e", "f", " ", "n", "(", ")", ":">>)>>,
   <<MkFile(<<"m", ".", "j", "s">>, <<"c", "l", "a", "s", "s", " ", "A", " ", "{", "\n", "f", "u", "n", "c", "t", "i", "o", "n", " ", "f", "(", ")", " ", "{", "\n", "}">>)>>,
   <<MkFile(<<"f", ".", "c">>, <<"s", "t", "r", "u", "c", "t", " ", "S", " ", "{", "\n", "v", "o", "i", "d", " ", "f", "(", "i", "n", "t", " ", "x", ")", " ", "{", "\n", "}">>)>>,
   <<MkFile(<<"a", ".", "p", "y">>, <<"i", "m", "p", "o", "r", "t", " ", "m", "\n", "d", "e", "f", " ", "n", "(", ")", ":">>),
     MkFile(<<"m", ".", "j", "s">>, <<"f", "u", "n", "c", "t", "i", "o", "n", " ", "f", "(", ")", " ", "{", "\n", "}">>)>>}

InitApp ==
  /\ files = <<>>
  /\ depth = InitialDepth
  /\ pc = "app"
  /\ NotEntered
  /\ prev = <<>>
  /\ EstIdle
  /\ AppIdle
  /\ SnipIdle

\* the effect on [files, depth] with the new values fs and d, up to the await
RunEffect(fs, d) ==
  IF fs = <<>>
  THEN UNCHANGED <<analysis, selectedNode, loading, pending>>
  ELSE /\ loading' = TRUE
       /\ analysis' = <<>>
       /\ selectedNode' = <<>>
       /\ pending' = Append(pending, analyzeCodebase(fs, d))

\* handleFilesLoaded: setFiles(loadedFiles), then the effect
FilesLoaded ==
  /\ pc = "app"
  /\ pending = <<>>
  /\ \E fs \in AppFileSets :
       /\ files' = fs
       /\ RunEffect(fs, depth)
  /\ UNCHANGED <<depth, pc, fi, li, lines, nodes, links, fileNodes,
                 currentClass, summary, prev, estIn, estOut, snipIn, snipOut>>

\* onChange of the depth slider, rendered when files.length > 0:
\* setDepth(d), then the effect if the value is a new one
DepthChanged ==
  /\ pc = "app"
  /\ pending = <<>>
  /\ files # <<>>
  /\ \E d \in Depths \ {depth} :
       /\ depth' = d
       /\ RunEffect(files, d)
  /\ UNCHANGED <<files, pc, fi, li, lines, nodes, links, fileNodes,
                 currentClass, summary, prev, estIn, estOut, snipIn, snipOut>>

\* the continuation of runAnalysis: setAnalysis(result), setLoading(false)
Complete ==
  /\ pc = "app"
  /\ pending # <<>>
  /\ analysis' = <<Head(pending)>>
  /\ loading' = FALSE
  /\ pending' = Tail(pending)
  /\ UNCHANGED <<files, depth, pc, fi, li, lines, nodes, links, fileNodes,
                 currentClass, summary, prev, estIn, estOut, selectedNode,
                 snipIn, snipOut>>

\* onNodeSelect of the graph, rendered when analysis is set
SelectNode ==
  /\ pc = "app"
  /\ pending = <<>>
  /\ analysis # <<>>
  /\ \E k \in 1..Len(analysis[1].nodes) :
       selectedNode' = <<analysis[1].nodes[k]>>
  /\ UNCHANGED <<files, depth, pc, fi, li, lines, nodes, links, fileNodes,
                 currentClass, summary, prev, estIn, estOut, analysis,
                 loading, pending, snipIn, snipOut>>

\* the search box is cleared: setSelectedNode(null)
ClearSelection ==
  /\ pc = "app"
  /\ pending = <<>>
  /\ selectedNode # <<>>
  /\ selectedNode' = <<>>
  /\ UNCHANGED <<files, depth, pc, fi, li, lines, nodes, links, fileNodes,
                 currentClass, summary, prev, estIn, estOut, analysis,
                 loading, pending, snipIn, snipOut>>

NextApp ==
  \/ FilesLoaded
  \/ DepthChanged
  \/ Complete
  \/ SelectNode
  \/ ClearSelection

SpecApp ==
  InitApp /\ [][NextApp]_vars

(***************************************************************************)
(* Properties                                                              *)
(***************************************************************************)
\* the set of elements of a sequence
Range(seq) ==
  {seq[i] : i \in 1..Len(seq)}

\* the nodes of one kind
NodesOfType(ns, t) ==
  SelectSeq(ns, LAMBDA n : n.type = t)

\* the input file with this path
FileAt(path) ==
  CHOOSE f \in Range(files) : f.path = path

\* the number of lines of a text: one more than its newlines
LineCount(text) ==
  Cardinality({k \in 1..Len(text) : text[k] = "\n"}) + 1

\* C1: when analyzeCodebase has returned, every input file has exactly one
\* FILE node, the id of that node is 'FILE:' followed by the path of the file,
\* no other node of the graph has that id, and there are no further FILE nodes.
C1_OneFileNodePerFile ==
  pc = "done" =>
    /\ Len(NodesOfType(nodes, "FILE")) = Len(files)
    /\ \A i \in 1..Len(files) :
         LET at == {k \in 1..Len(nodes) :
                      nodes[k].type = "FILE" /\ nodes[k].file = files[i].path}
         IN  /\ Cardinality(at) = 1
             /\ \A k \in at :
                  /\ nodes[k].id = <<"F", "I", "L", "E", ":">> \o files[i].path
                  /\ \A j \in 1..Len(nodes) : j # k => nodes[j].id # nodes[k].id

\* C1 witness: a run over two files, one of them in a directory, has
\* returned with class or function nodes next to the FILE nodes
C1_Witness ==
  /\ pc = "done"
  /\ Len(files) = 2
  /\ \E i \in 1..2 : files[i].name # files[i].path
  /\ Len(nodes) > 2

\* C2: every CLASS or FUNCTION node has 1 <= startLine <= endLine <= the
\* number of lines of the file it belongs to.
C2_SpanWithinFile ==
  \A k \in 1..Len(nodes) :
    nodes[k].type # "FILE" =>
      /\ 1 <= nodes[k].startLine
      /\ nodes[k].startLine <= nodes[k].endLine
      /\ nodes[k].endLine <= LineCount(FileAt(nodes[k].file).content)

\* C2 witness: a construct that starts on the last line of a file of several
\* lines whose braces are never closed
C2_Witness ==
  /\ pc = "done"
  /\ \E k \in 1..Len(nodes) :
       /\ nodes[k].type = "FUNCTION"
       /\ IsCpp(nodes[k].file)
       /\ nodes[k].startLine = 3
       /\ nodes[k].endLine = 3
       /\ LineCount(FileAt(nodes[k].file).content) = 3
  /\ \E k \in 1..Len(nodes) :
       nodes[k].type = "CLASS" /\ nodes[k].startLine < nodes[k].endLine

\* the ids of a node sequence
Ids(ns) ==
  {ns[i].id : i \in 1..Len(ns)}

\* the IMPORT links of a link sequence, in order
ImportsOf(ls) ==
  SelectSeq(ls, LAMBDA l : l.type = "IMPORT")

\* the multiset of the elements of a sequence
BagOfSeq(seq) ==
  [x \in Range(seq) |-> Cardinality({i \in 1..Len(seq) : seq[i] = x})]

\* C3: of two invocations on the same files, the one at the smaller depth
\* returns a subset of the node ids of the other, and both return the same
\* sequence of IMPORT links, whatever their depths.
C3_DepthMonotone ==
  pc = "done" =>
    \A i \in 1..Len(prev) :
      /\ prev[i].depth <= depth => Ids(prev[i].nodes) \subseteq Ids(nodes)
      /\ depth <= prev[i].depth => Ids(nodes) \subseteq Ids(prev[i].nodes)
      /\ ImportsOf(prev[i].links) = ImportsOf(links)

\* C3 witness: a run at depth 1 and then a run at depth 3 on files with a
\* Python class, a function and an import that resolves
C3_Witness ==
  /\ pc = "done"
  /\ Len(prev) = 1
  /\ prev[1].depth = 1
  /\ depth = 3
  /\ ImportsOf(links) # <<>>
  /\ \E k \in 1..Len(nodes) : nodes[k].type = "CLASS" /\ IsPy(nodes[k].file)
  /\ \E k \in 1..Len(nodes) : nodes[k].type = "FUNCTION"
  /\ Ids(prev[1].nodes) # Ids(nodes)

\* C4: a second invocation on the same files at the same depth returns the
\* same multiset of nodes and the same multiset of links as the first.
C4_Idempotent ==
  pc = "done" =>
    \A i \in 1..Len(prev) :
      prev[i].depth = depth =>
        /\ BagOfSeq(prev[i].nodes) = BagOfSeq(nodes)
        /\ BagOfSeq(prev[i].links) = BagOfSeq(links)

\* C4 witness: the second of two runs at depth 3 has returned class and
\* function nodes, a method of a class and an import link
C4_Witness ==
  /\ pc = "done"
  /\ Len(prev) = 1
  /\ prev[1].depth = 3
  /\ depth = 3
  /\ ImportsOf(links) # <<>>
  /\ \E k \in 1..Len(links) :
       links[k].type = "CONTAINS" /\ links[k].source \in Ids(NodesOfType(nodes, "CLASS"))

\* every character of the line is whitespace
AllBlank(line) ==
  \A k \in 1..Len(line) : line[k] \in {" ", "\t", "\r"}

\* the column of the first non-whitespace character of a line that has one
Indentation(line) ==
  CHOOSE n \in 0..(Len(line) - 1) :
    /\ \A k \in 1..n : line[k] \in {" ", "\t", "\r"}
    /\ line[n + 1] \notin {" ", "\t", "\r"}

\* the least element of a non-empty set of integers
Least(S) ==
  CHOOSE x \in S : \A y \in S : x <= y

\* the indices after s of the non-blank lines indented no more than line s
IndentEnders(ls, s) ==
  {i \in (s + 1)..(Len(ls) - 1) :
     /\ ~AllBlank(ls[i + 1])
     /\ Indentation(ls[i + 1]) <= Indentation(ls[s + 1])}

\* C5: determineEndLine(lines, s, 'PYTHON') is s + 1 when line s is all
\* whitespace; otherwise it is the least index after s of a non-blank line
\* indented no more than line s, and lines.length when there is none.  On
\* the example of the specification at s = 0 it is 3.
C5_IndentEstimator ==
  (estOut # -1 /\ estIn.type = "PYTHON") =>
    /\ estOut = IF AllBlank(estIn.lines[estIn.startIdx + 1])
                THEN estIn.startIdx + 1
                ELSE IF IndentEnders(estIn.lines, estIn.startIdx) = {}
                THEN Len(estIn.lines)
                ELSE Least(IndentEnders(estIn.lines, estIn.startIdx))
    /\ (estIn.lines = IndentExample /\ estIn.startIdx = 0) => estOut = 3

\* C5 witness: the call on the example of the specification has returned
C5_Witness ==
  /\ estOut = 3
  /\ estIn.type = "PYTHON"
  /\ estIn.startIdx = 0
  /\ estIn.lines = <<<<"c", "l", "a", "s", "s", " ", "A", ":">>,
                   <<" ", " ", " ", " ", "d", "e", "f", " ", "f", "(", ")", ":">>,
                   <<" ", " ", " ", " ", " ", " ", " ", " ", "p", "a", "s", "s">>,
                   <<"c", "l", "a", "s", "s", " ", "B", ":">>>>

\* the positions <<j, k>> of character c in lines s..i (0-based line indices)
Occurrences(ls, s, i, c) ==
  UNION {{<<j, k>> : k \in {x \in 1..Len(ls[j + 1]) : ls[j + 1][x] = c}} : j \in s..i}

\* the indices i >= s at which a '{' has occurred in lines s..i and the
\* '{' of lines s..i are no more than the '}'
BraceEnders(ls, s) ==
  {i \in s..(Len(ls) - 1) :
     /\ Occurrences(ls, s, i, "{") # {}
     /\ Cardinality(Occurrences(ls, s, i, "{"))
          <= Cardinality(Occurrences(ls, s, i, "}"))}

\* C6: determineEndLine(lines, s, 'JS' or 'C_CPP') is i + 1 for the least
\* i >= s at which a '{' has occurred in lines s..i and the balance of
\* lines s..i is <= 0, and min(s + 20, lines.length) when there is no such
\* i.  On the example of the specification at s = 0 it is 4.
C6_BraceEstimator ==
  (estOut # -1 /\ estIn.type \in {"JS", "C_CPP"}) =>
    /\ estOut = IF BraceEnders(estIn.lines, estIn.startIdx) = {}
                THEN IF estIn.startIdx + 20 <= Len(estIn.lines)
                     THEN estIn.startIdx + 20
                     ELSE Len(estIn.lines)
                ELSE Least(BraceEnders(estIn.lines, estIn.startIdx)) + 1
    /\ (estIn.lines = BraceExample /\ estIn.startIdx = 0) => estOut = 4

\* C6 witness: the call on the example of the specification has returned
C6_Witness ==
  /\ estOut = 4
  /\ estIn.type = "C_CPP"
  /\ estIn.startIdx = 0
  /\ estIn.lines = <<<<"v", "o", "i", "d", " ", "f", "(", ")", " ", "{">>,
                   <<" ", " ", "i", "f", " ", "(", "x", ")", " ", "{">>,
                   <<" ", " ", "}">>,
                   <<"}">>,
                   <<"v", "o", "i", "d", " ", "g", "(", ")", " ", "{", "}">>>>

\* a call of the brace strategy that returned the fallback below the length
C6_FallbackReached ==
  /\ estOut = estIn.startIdx + 20
  /\ estOut < Len(estIn.lines)
  /\ estIn.type = "JS"

\* the nodes a step has appended
NewNodes ==
  SubSeq(nodes', Len(nodes) + 1, Len(nodes'))

\* the links a step has appended
NewLinks ==
  SubSeq(links', Len(links) + 1, Len(links'))

\* the links of one type of a link sequence, in order
LinksOfType(ls, t) ==
  SelectSeq(ls, LAMBDA l : l.type = t)

\* the path ends with .py
IsPythonPath(path) ==
  Len(path) >= 3 /\ SubSeq(path, Len(path) - 2, Len(path)) = <<".", "p", "y">>

\* a step of the second pass at a line
AtLineStep ==
  pc = "parse" /\ lines # <<>>

\* the containment rule on one step: every node a line appends comes with
\* exactly one CONTAINS link to it, and the link of a FUNCTION node starts
\* at the active class if the file is a .py file, the line is indented and a
\* class is active, and at the FILE node of the file otherwise
C7_LineRule ==
  AtLineStep =>
    LET line     == lines[li + 1]
        path     == files[fi].path
        expected == IF /\ IsPythonPath(path)
                       /\ Indentation(line) > 0
                       /\ currentClass # <<>>
                    THEN currentClass[1].id
                    ELSE <<"F", "I", "L", "E", ":">> \o path
        newC     == LinksOfType(NewLinks, "CONTAINS")
    IN  /\ Len(newC) = Len(NewNodes)
        /\ \A k \in 1..Len(NewNodes) :
             /\ newC[k].target = NewNodes[k].id
             /\ NewNodes[k].type = "FUNCTION" =>
                  /\ depth >= 3
                  /\ newC[k].source = expected

\* the result of the end-to-end scenario at depth 3
C7_Scenario ==
  (pc = "done" /\ depth = 3 /\ files = EndToEndFiles) =>
    /\ [k \in 1..Len(nodes) |-> <<nodes[k].type, nodes[k].id>>] =
         << <<"FILE", <<"F", "I", "L", "E", ":", "a", ".", "p", "y">>>>,
            <<"FILE", <<"F", "I", "L", "E", ":", "b", ".", "p", "y">>>>,
            <<"CLASS", <<"C", "L", "A", "S", "S", ":", "a", ".", "p", "y", ":", "A">>>>,
            <<"FUNCTION", <<"F", "U", "N", "C", "T", "I", "O", "N", ":", "a", ".", "p", "y", ":", "m">>>> >>
    /\ links =
         << [source |-> <<"F", "I", "L", "E", ":", "a", ".", "p", "y">>,
             target |-> <<"F", "I", "L", "E", ":", "b", ".", "p", "y">>,
             type   |-> "IMPORT"],
            [source |-> <<"F", "I", "L", "E", ":", "a", ".", "p", "y">>,
             target |-> <<"C", "L", "A", "S", "S", ":", "a", ".", "p", "y", ":", "A">>,
             type   |-> "CONTAINS"],
            [source |-> <<"C", "L", "A", "S", "S", ":", "a", ".", "p", "y", ":", "A">>,
             target |-> <<"F", "U", "N", "C", "T", "I", "O", "N", ":", "a", ".", "p", "y", ":", "m">>,
             type   |-> "CONTAINS"] >>

\* C7: at depth >= 3 every FUNCTION node is appended together with exactly
\* one CONTAINS link, from the active class if and only if the file is a .py
\* file, the def line is indented and a class is active, and from the FILE
\* node of the file otherwise; the a.py/b.py scenario yields two FILE nodes,
\* class A, function m contained by A only, and one IMPORT link a.py -> b.py.
C7_Containment ==
  [][C7_LineRule]_vars /\ []C7_Scenario

\* C7 witness: a method attached to its class, and a function of a JS/TS
\* file attached to the file
C7_Witness ==
  /\ pc = "done"
  /\ depth = 3
  /\ \E k \in 1..Len(links) :
       /\ links[k].type = "CONTAINS"
       /\ links[k].source \in Ids(NodesOfType(nodes, "CLASS"))
       /\ links[k].target \in Ids(NodesOfType(nodes, "FUNCTION"))
  /\ \E k \in 1..Len(nodes) : nodes[k].type = "FUNCTION" /\ IsJs(nodes[k].file)

\* the end-to-end scenario has returned at depth 3
C7_ScenarioReached ==
  pc = "done" /\ depth = 3 /\ files = EndToEndFiles /\ Len(links) = 3

\* the path ends with .c, .cpp, .h, .hpp or .cc
IsCFamilyPath(path) ==
  \E ext \in {<<".", "c">>, <<".", "c", "p", "p">>, <<".", "h">>,
              <<".", "h", "p", "p">>, <<".", "c", "c">>} :
    /\ Len(ext) <= Len(path)
    /\ SubSeq(path, Len(path) - Len(ext) + 1, Len(path)) = ext

\* the names the function pattern of Family C can capture on a line: the
\* name is a run of word characters and ':' at positions a..b, preceded by
\* one or more whitespace-terminated tokens over word characters and
\* : * & < > (with optional leading whitespace) and followed by optional
\* whitespace and '('
CppPatternNames(line) ==
  LET ws    == {" ", "\t", "\r"}
      tokCh == WordChar \cup {":", "*", "&", "<", ">"}
      ok(a, b) ==
        /\ 2 <= a /\ a <= b
        /\ \A k \in 1..(a - 1) : line[k] \in tokCh \cup ws
        /\ line[a - 1] \in ws
        /\ \E k \in 1..(a - 1) : line[k] \in tokCh
        /\ \A k \in a..b : line[k] \in WordChar \cup {":"}
        /\ \E c \in (b + 1)..Len(line) :
             line[c] = "(" /\ \A k \in (b + 1)..(c - 1) : line[k] \in ws
  IN  {SubSeq(line, p[1], p[2]) :
         p \in {q \in (1..Len(line)) \X (1..Len(line)) : ok(q[1], q[2])}}

\* the names the Family C filter rejects
ControlKeywords ==
  {<<"i", "f">>, <<"w", "h", "i", "l", "e">>, <<"f", "o", "r">>,
   <<"s", "w", "i", "t", "c", "h">>, <<"r", "e", "t", "u", "r", "n">>,
   <<"c", "a", "t", "c", "h">>, <<"e", "l", "s", "e">>,
   <<"n", "e", "w">>, <<"d", "e", "l", "e", "t", "e">>}

\* the last character of the line that is not whitespace is ';'
EndsWithSemicolon(line) ==
  \E k \in 1..Len(line) :
    line[k] = ";" /\ \A j \in (k + 1)..Len(line) : line[j] \in {" ", "\t", "\r"}

\* the labels of the FUNCTION nodes a step has appended
NewFunctionLabels ==
  LET fs == NodesOfType(NewNodes, "FUNCTION")
  IN  [k \in 1..Len(fs) |-> fs[k].label]

\* the filter on one step at a line of a Family C file
C8_LineRule ==
  (AtLineStep /\ IsCFamilyPath(files[fi].path)) =>
    LET line  == lines[li + 1]
        names == IF depth >= 3 /\ ~EndsWithSemicolon(line)
                 THEN CppPatternNames(line) \ ControlKeywords
                 ELSE {}
    IN  /\ names = {} => NewFunctionLabels = <<>>
        /\ names # {} => Len(NewFunctionLabels) = 1 /\ NewFunctionLabels[1] \in names
        /\ line = <<"v", "o", "i", "d", " ", "f", "(", "i", "n", "t", " ", "x", ")", ";">>
             => NewFunctionLabels = <<>>
        /\ (depth >= 3 /\ line = <<"v", "o", "i", "d", " ", "f", "(", "i", "n", "t", " ", "x", ")", " ", "{">>)
             => NewFunctionLabels = << <<"f">> >>

\* no FUNCTION node of a Family C file is labelled with a rejected name
C8_NoKeywordLabel ==
  \A k \in 1..Len(nodes) :
    (nodes[k].type = "FUNCTION" /\ IsCFamilyPath(nodes[k].file))
      => nodes[k].label \notin ControlKeywords

\* C8: at depth >= 3 a line of a Family C file appends a FUNCTION node if and
\* only if it matches the function pattern, the captured name is none of if,
\* while, for, switch, return, catch, else, new, delete, and the trimmed line
\* does not end with ';'; so "void f(int x);" never appends one,
\* "void f(int x) {" always does, and no label is one of those names.
C8_CppFunctionFilter ==
  [][C8_LineRule]_vars /\ []C8_NoKeywordLabel

\* C8 witness: a Family C file with a prototype, an "else if" line and a
\* definition has been analysed at depth 3 and has one FUNCTION node
C8_Witness ==
  /\ pc = "done"
  /\ depth = 3
  /\ Len(files) = 1
  /\ IsCFamilyPath(files[1].path)
  /\ SplitLines(files[1].content) =
       << <<"v", "o", "i", "d", " ", "f", "(", "i", "n", "t", " ", "x", ")", ";">>,
          <<"e", "l", "s", "e", " ", "i", "f", " ", "(", "x", ")", " ", "{">>,
          <<"v", "o", "i", "d", " ", "f", "(", "i", "n", "t", " ", "x", ")", " ", "{">> >>
  /\ Len(NodesOfType(nodes, "FUNCTION")) = 1

\* the positions of the CONTAINS links that point at an id
ContainsInto(id) ==
  {k \in 1..Len(links) : links[k].type = "CONTAINS" /\ links[k].target = id}

\* the types of the nodes that carry an id
TypesOf(id) ==
  {nodes[k].type : k \in {j \in 1..Len(nodes) : nodes[j].id = id}}

\* C9: in the result the CONTAINS edges form a forest rooted at File nodes:
\* every CONTAINS edge is File->Class, File->Function or Class->Function, no
\* File node id is the target of a CONTAINS edge, and every Class or Function
\* node id is the target of exactly one CONTAINS edge, also when a construct
\* name occurs more than once in a file.
C9_ContainsForest ==
  pc = "done" =>
    /\ \A k \in 1..Len(links) :
         links[k].type = "CONTAINS" =>
           \/ /\ "FILE" \in TypesOf(links[k].source)
              /\ TypesOf(links[k].target) \cap {"CLASS", "FUNCTION"} # {}
           \/ /\ "CLASS" \in TypesOf(links[k].source)
              /\ "FUNCTION" \in TypesOf(links[k].target)
    /\ \A k \in 1..Len(nodes) :
         /\ nodes[k].type = "FILE" => ContainsInto(nodes[k].id) = {}
         /\ nodes[k].type \in {"CLASS", "FUNCTION"}
              => Cardinality(ContainsInto(nodes[k].id)) = 1

\* C9 case reached: a.py holds a method m of class A followed by a top-level
\* def m; both get the id FUNCTION:a.py:m, which ends up with two parents
C9_TwoParents ==
  /\ pc = "done"
  /\ depth = 3
  /\ Len(files) = 1
  /\ files[1].path = <<"a", ".", "p", "y">>
  /\ SplitLines(files[1].content) =
       << <<"c", "l", "a", "s", "s", " ", "A", ":">>,
          <<" ", " ", " ", " ", "d", "e", "f", " ", "m", "(", "s", "e", "l", "f", ")", ":">>,
          <<"d", "e", "f", " ", "m", "(", ")", ":">> >>
  /\ {links[k].source : k \in ContainsInto(<<"F", "U", "N", "C", "T", "I", "O", "N", ":", "a", ".", "p", "y", ":", "m">>)}
       = {<<"C", "L", "A", "S", "S", ":", "a", ".", "p", "y", ":", "A">>, <<"F", "I", "L", "E", ":", "a", ".", "p", "y">>}
  /\ Cardinality({k \in 1..Len(nodes) : nodes[k].id = <<"F", "U", "N", "C", "T", "I", "O", "N", ":", "a", ".", "p", "y", ":", "m">>}) = 2

\* the identifier token of an import line: the line starts with "from" or
\* "import", then one or more whitespace characters, then the longest run
\* of word characters, which is the token; the set is empty or a singleton
ImportTokens(line) ==
  {tok \in {SubSeq(line, p[1], p[2]) : p \in (1..Len(line)) \X (1..Len(line))} :
     \E kw \in {<<"f", "r", "o", "m">>, <<"i", "m", "p", "o", "r", "t">>} :
       \E t \in (Len(kw) + 2)..Len(line) :
         /\ Len(kw) <= Len(line) /\ SubSeq(line, 1, Len(kw)) = kw
         /\ \A k \in (Len(kw) + 1)..(t - 1) : line[k] \in {" ", "\t", "\r"}
         /\ tok # <<>>
         /\ t + Len(tok) - 1 <= Len(line)
         /\ tok = SubSeq(line, t, t + Len(tok) - 1)
         /\ \A k \in 1..Len(tok) : tok[k] \in WordChar
         /\ (t + Len(tok) <= Len(line) => line[t + Len(tok)] \notin WordChar)}

\* tok occurs in path as a contiguous run of equal characters
HasSubstring(path, tok) ==
  \E i \in 0..(Len(path) - Len(tok)) : SubSeq(path, i + 1, i + Len(tok)) = tok

\* the import rule on one step at a line of a .py file: the IMPORT links the
\* step appends are, in input order, one link from the FILE node of the file
\* to the FILE node of each other input file whose path contains the token
C10_LineRule ==
  (AtLineStep /\ IsPythonPath(files[fi].path)) =>
    LET self    == files[fi].path
        toks    == ImportTokens(lines[li + 1])
        hit(f)  == f.path # self /\ \E tok \in toks : HasSubstring(f.path, tok)
        targets == SelectSeq(files, hit)
    IN  LinksOfType(NewLinks, "IMPORT") =
          [k \in 1..Len(targets) |->
             [source |-> <<"F", "I", "L", "E", ":">> \o self,
              target |-> <<"F", "I", "L", "E", ":">> \o targets[k].path,
              type   |-> "IMPORT"]]

\* C10: at every depth, a line of a .py file that starts with "from" or
\* "import" followed by whitespace and an identifier token appends exactly
\* one IMPORT edge from the file's File node to the File node of every other
\* input file whose path contains the token (case-sensitive), and no other
\* IMPORT edge; the target may come before or after the importing file in
\* the input order and is never the importing file itself.
C10_ImportResolution ==
  [][C10_LineRule]_vars

\* C10 witness: at depth 1, b.py comes first and holds "import b"; inc/b.h
\* comes after it; the only IMPORT link goes from b.py to inc/b.h although
\* the path of b.py contains the token too
C10_Witness ==
  /\ pc = "done"
  /\ depth = 1
  /\ Len(files) = 2
  /\ files[1].path = <<"b", ".", "p", "y">>
  /\ files[2].path = <<"i", "n", "c", "/", "b", ".", "h">>
  /\ SplitLines(files[1].content) = << <<"i", "m", "p", "o", "r", "t", " ", "b">> >>
  /\ LinksOfType(links, "IMPORT") =
       << [source |-> <<"F", "I", "L", "E", ":", "b", ".", "p", "y">>,
           target |-> <<"F", "I", "L", "E", ":", "i", "n", "c", "/", "b", ".", "h">>,
           type   |-> "IMPORT"] >>

\* C10 case reached: the target file comes before the importing file
C10_TargetBefore ==
  /\ pc = "done"
  /\ Len(files) = 2
  /\ files[1].path = <<"i", "n", "c", "/", "b", ".", "h">>
  /\ files[2].path = <<"a", ".", "p", "y">>
  /\ SplitLines(files[2].content) = << <<"f", "r", "o", "m", " ", "i", "n", "c", " ", "i", "m", "p", "o", "r", "t", " ", "b">> >>
  /\ LinksOfType(links, "IMPORT") =
       << [source |-> <<"F", "I", "L", "E", ":", "a", ".", "p", "y">>,
           target |-> <<"F", "I", "L", "E", ":", "i", "n", "c", "/", "b", ".", "h">>,
           type   |-> "IMPORT"] >>

\* the depth in 1..3 an integer depth acts as
ThresholdDepth(d) ==
  IF d < 1 THEN 1 ELSE IF d > 3 THEN 3 ELSE d

\* the ids of the nodes of one type
IdsOfType(ns, t) ==
  {ns[k].id : k \in {j \in 1..Len(ns) : ns[j].type = t}}

\* C11: for any integer depth d, if d <= 1 the result has only FILE nodes and
\* only IMPORT edges; if d = 2 it has no FUNCTION node and every CONTAINS
\* edge goes from a FILE node to a CLASS node; FUNCTION nodes occur only if
\* d >= 3; and two calls on the same files whose depths act as the same
\* threshold (d < 1 as 1, d > 3 as 3) return the same nodes and links and
\* the same counts in the summary.
C11_DepthSemantics ==
  pc = "done" =>
    /\ depth <= 1 =>
         /\ \A k \in 1..Len(nodes) : nodes[k].type = "FILE"
         /\ \A k \in 1..Len(links) : links[k].type = "IMPORT"
    /\ depth = 2 =>
         /\ \A k \in 1..Len(nodes) : nodes[k].type # "FUNCTION"
         /\ \A k \in 1..Len(links) :
              links[k].type = "CONTAINS" =>
                /\ links[k].source \in IdsOfType(nodes, "FILE")
                /\ links[k].target \in IdsOfType(nodes, "CLASS")
    /\ (\E k \in 1..Len(nodes) : nodes[k].type = "FUNCTION") => depth >= 3
    /\ \A r \in 1..Len(prev) :
         ThresholdDepth(prev[r].depth) = ThresholdDepth(depth) =>
           /\ prev[r].nodes = nodes
           /\ prev[r].links = links
           /\ prev[r].summary.files = summary.files
           /\ prev[r].summary.classes = summary.classes
           /\ prev[r].summary.functions = summary.functions

\* C11 witness: the same files have been analysed at depth 4 and then at
\* depth 3, and the result has a FUNCTION node
C11_Witness ==
  /\ pc = "done"
  /\ Len(prev) = 1
  /\ prev[1].depth = 4
  /\ depth = 3
  /\ \E k \in 1..Len(nodes) : nodes[k].type = "FUNCTION"

\* C11 case reached: depth 0 and then depth 1 on files with an import
C11_BelowRange ==
  /\ pc = "done"
  /\ Len(prev) = 1
  /\ prev[1].depth = 0
  /\ depth = 1
  /\ links # <<>>

\* C12: in the returned graph the file field of every node that is not a
\* FILE node equals the path (the file field) of a FILE node of that graph.
C12_OwnerFilePresent ==
  pc = "done" =>
    \A k \in 1..Len(nodes) :
      nodes[k].type # "FILE" =>
        \E j \in 1..Len(nodes) :
          /\ nodes[j].type = "FILE"
          /\ nodes[j].file = nodes[k].file
          /\ nodes[j].id = <<"F", "I", "L", "E", ":">> \o nodes[k].file

\* C12 witness: a result with a CLASS node of inc/b.h, whose path differs
\* from its short name, next to the nodes of another file
C12_Witness ==
  /\ pc = "done"
  /\ Len(files) = 2
  /\ \E k \in 1..Len(nodes) :
       /\ nodes[k].type = "CLASS"
       /\ nodes[k].file = <<"i", "n", "c", "/", "b", ".", "h">>
  /\ \E k \in 1..Len(nodes) :
       /\ nodes[k].type = "FUNCTION"
       /\ nodes[k].file # <<"i", "n", "c", "/", "b", ".", "h">>

\* the summary of a returned result states the requested depth, the number
\* of input files and the numbers of CLASS and FUNCTION entries of the node
\* list; the result of a call on no files has no nodes and no links
C13_SummaryMatches ==
  pc = "done" =>
    /\ summary # <<>>
    /\ summary.depth = depth
    /\ summary.files = Len(files)
    /\ summary.classes = Len(SelectSeq(nodes, LAMBDA n : n.type = "CLASS"))
    /\ summary.functions = Len(SelectSeq(nodes, LAMBDA n : n.type = "FUNCTION"))
    /\ files = <<>> =>
         /\ nodes = <<>>
         /\ links = <<>>
         /\ summary.files = 0 /\ summary.classes = 0 /\ summary.functions = 0

\* the number of callbacks and statements an entered call has yet to run:
\* one per file of the first pass, one per file and one per line of the
\* second pass, and the summary
RECURSIVE StepsOfFiles(_, _)
StepsOfFiles(fs, i) ==
  IF i > Len(fs) THEN 0
  ELSE 1 + LineCount(fs[i].content) + StepsOfFiles(fs, i + 1)

StepsLeft ==
  IF pc = "files" THEN (Len(files) - fi + 1) + StepsOfFiles(files, 1) + 1
  ELSE IF pc = "parse" /\ lines = <<>> THEN StepsOfFiles(files, fi) + 1
  ELSE IF pc = "parse" THEN (Len(lines) - li) + StepsOfFiles(files, fi + 1) + 1
  ELSE 0

\* an entered call is at a file of the input and, inside a file, at a line
\* of it (so files[fi] and lines[index] are defined wherever they are read),
\* or it is past the last file, where it returns
C13_CallProceeds ==
  /\ pc = "files" => fi \in 1..Len(files)
  /\ (pc = "parse" /\ lines = <<>>) => fi \in 1..(Len(files) + 1)
  /\ (pc = "parse" /\ lines # <<>>) =>
       /\ fi \in 1..Len(files)
       /\ li \in 0..(Len(lines) - 1)
       /\ \E e \in 1..Len(fileNodes) : fileNodes[e].key = files[fi].path

\* every step of an entered call leaves fewer steps to run
C13_StepsDecrease ==
  pc \in {"files", "parse"} => (StepsLeft' < StepsLeft /\ StepsLeft' >= 0)

\* C13: every call returns a value (what it reads is defined at every step
\* and the number of steps left to the return decreases), and its summary reports the
\* requested depth, a file count equal to the number of input files and class
\* and function counts equal to the numbers of CLASS and FUNCTION entries of
\* the node list (entries with the same id counted separately); on an empty
\* file sequence, at any depth, nodes and links are empty and the counts 0.
C13_SummaryAndEmptyInput ==
  /\ []C13_SummaryMatches
  /\ []C13_CallProceeds
  /\ [][C13_StepsDecrease]_vars

\* C13 witness: a result with two FUNCTION entries of one id, counted as two
C13_Witness ==
  /\ pc = "done"
  /\ summary # <<>>
  /\ summary.functions = 2
  /\ \E j, k \in 1..Len(nodes) :
       j < k /\ nodes[j].type = "FUNCTION" /\ nodes[j].id = nodes[k].id

\* C13 case reached: a call on no files at a depth outside 1..3
C13_EmptyInput ==
  /\ pc = "done"
  /\ files = <<>>
  /\ depth = 0
  /\ summary = [depth |-> 0, files |-> 0, classes |-> 0, functions |-> 0]

\* the position of the n-th newline of a text: 0 for n = 0 and one past the
\* end when the text has fewer than n newlines
NewlineAt(text, n) ==
  IF n = 0 THEN 0
  ELSE LET at == {p \in 1..Len(text) :
                    /\ text[p] = "\n"
                    /\ Cardinality({q \in 1..p : text[q] = "\n"}) = n}
       IN  IF at = {} THEN Len(text) + 1 ELSE CHOOSE p \in at : TRUE

\* lines a..b of a text (1-indexed, both included) with the newlines between
\* them, for 1 <= a; no character when the text has no line a..b
TextOfLines(text, a, b) ==
  IF a > b \/ a > LineCount(text) THEN <<>>
  ELSE SubSeq(text, NewlineAt(text, a - 1) + 1, NewlineAt(text, b) - 1)

\* the call of getCodeSnippet has returned for a node whose file is loaded
SnipDone ==
  /\ pc = "snippet"
  /\ snipOut # <<>>
  /\ snipIn[1].file # <<>>
  /\ \E k \in 1..Len(files) : files[k].path = snipIn[1].file[1]

\* the text of the first loaded file with the path of the node
SnipOwnerText ==
  files[CHOOSE k \in 1..Len(files) :
          /\ files[k].path = snipIn[1].file[1]
          /\ \A j \in 1..(k - 1) : files[j].path # snipIn[1].file[1]].content

\* the node has a span with 1 <= startLine <= endLine
SnipHasSpan ==
  /\ snipIn[1].startLine # <<>>
  /\ snipIn[1].endLine # <<>>
  /\ 1 <= snipIn[1].startLine[1]
  /\ snipIn[1].startLine[1] <= snipIn[1].endLine[1]

\* the node is a FILE node or lacks startLine or endLine
SnipNoSpan ==
  \/ snipIn[1].type = "FILE"
  \/ snipIn[1].startLine = <<>>
  \/ snipIn[1].endLine = <<>>

\* C14 as stated: for a non-File node whose owning file is loaded and whose
\* span satisfies 1 <= startLine <= endLine, getCodeSnippet returns exactly
\* lines max(startLine, 1) .. min(endLine, lineCount) of the file joined by
\* newline; for a File node or a node lacking startLine or endLine it
\* returns the whole file text.
C14_SpanLookup_Original ==
  SnipDone =>
    /\ (snipIn[1].type # "FILE" /\ SnipHasSpan) =>
         snipOut[1] = TextOfLines(SnipOwnerText,
                                  Max(snipIn[1].startLine[1], 1),
                                  Min(snipIn[1].endLine[1], LineCount(SnipOwnerText)))
    /\ SnipNoSpan => snipOut[1] = SnipOwnerText

\* C14 amended: for a non-File node whose owning file is loaded and whose
\* span satisfies 1 <= startLine <= endLine and startLine <= lineCount,
\* getCodeSnippet returns exactly lines startLine .. min(endLine, lineCount)
\* of the file joined by newline (one line when startLine = endLine); when
\* startLine > lineCount it returns the whole file text; for a File node or
\* a node lacking startLine or endLine it returns the whole file text.  On
\* a 5-line file, startLine = 2 and endLine = 3 give lines 2 and 3.
C14_SpanLookup ==
  SnipDone =>
    /\ (snipIn[1].type # "FILE" /\ SnipHasSpan) =>
         IF snipIn[1].startLine[1] <= LineCount(SnipOwnerText)
         THEN snipOut[1] = TextOfLines(SnipOwnerText,
                                       snipIn[1].startLine[1],
                                       Min(snipIn[1].endLine[1], LineCount(SnipOwnerText)))
         ELSE snipOut[1] = SnipOwnerText
    /\ SnipNoSpan => snipOut[1] = SnipOwnerText
    /\ (/\ snipIn[1].type = "FUNCTION"
        /\ snipIn[1].startLine = <<2>> /\ snipIn[1].endLine = <<3>>
        /\ SnipOwnerText = <<"a", "\n", "b", "b", "\n", "c", "\n", "d", "\n", "e">>)
         => snipOut[1] = <<"b", "b", "\n", "c">>

\* C14 witness: the lookup of lines 2..3 of the 5-line file has returned
C14_Witness ==
  /\ SnipDone
  /\ snipIn[1].type = "FUNCTION"
  /\ snipIn[1].startLine = <<2>>
  /\ snipIn[1].endLine = <<3>>
  /\ SnipOwnerText = <<"a", "\n", "b", "b", "\n", "c", "\n", "d", "\n", "e">>
  /\ snipOut[1] = <<"b", "b", "\n", "c">>

\* C14 case reached: a one-line span, startLine = endLine
C14_OneLine ==
  /\ SnipDone
  /\ snipIn[1].type = "CLASS"
  /\ snipIn[1].startLine = <<4>>
  /\ snipIn[1].endLine = <<4>>
  /\ SnipOwnerText = <<"a", "\n", "b", "b", "\n", "c", "\n", "d", "\n", "e">>
  /\ snipOut[1] = <<"d">>

\* the node is not a FILE node and has startLine and endLine, both not 0
SnipSliced ==
  /\ snipIn[1].type # "FILE"
  /\ snipIn[1].startLine # <<>> /\ snipIn[1].startLine[1] # 0
  /\ snipIn[1].endLine # <<>> /\ snipIn[1].endLine[1] # 0

\* startLine clamped to at least 1, as a 1-indexed line number
ClampedStartLine ==
  IF snipIn[1].startLine[1] < 1 THEN 1 ELSE snipIn[1].startLine[1]

\* endLine clamped to at most the line count of the file
ClampedEndLine ==
  IF snipIn[1].endLine[1] > LineCount(SnipOwnerText)
  THEN LineCount(SnipOwnerText) ELSE snipIn[1].endLine[1]

C15_BothClamped ==
  /\ SnipDone
  /\ SnipSliced
  /\ snipIn[1].startLine = <<-1>>
  /\ snipIn[1].endLine = <<7>>
  /\ SnipOwnerText = <<"x">>
  /\ snipOut[1] = <<"x">>

\* the path ends with none of the extensions of the three families
IsNoFamilyPath(path) ==
  \A ext \in {<<".", "p", "y">>, <<".", "j", "s">>, <<".", "t", "s">>,
              <<".", "j", "s", "x">>, <<".", "t", "s", "x">>, <<".", "c">>,
              <<".", "c", "p", "p">>, <<".", "h">>, <<".", "h", "p", "p">>,
              <<".", "c", "c">>} :
    \/ Len(ext) > Len(path)
    \/ SubSeq(path, Len(path) - Len(ext) + 1, Len(path)) # ext

FilePosition(path) ==
  CHOOSE i \in 1..Len(files) : files[i].path = path

\* C17: in the returned node sequence the first N entries (N the number of
\* input files) are the FILE nodes in input order, and all CLASS and
\* FUNCTION nodes follow them, ordered by the input position of their file
\* and, within one file, by non-decreasing startLine.
C17_NodeOrder ==
  pc = "done" =>
    /\ Len(nodes) >= Len(files)
    /\ \A i \in 1..Len(files) :
         /\ nodes[i].type = "FILE"
         /\ nodes[i].file = files[i].path
    /\ \A k \in (Len(files) + 1)..Len(nodes) :
         /\ nodes[k].type \in {"CLASS", "FUNCTION"}
         /\ \E i \in 1..Len(files) : files[i].path = nodes[k].file
    /\ \A j, k \in (Len(files) + 1)..Len(nodes) :
         j < k =>
           \/ FilePosition(nodes[j].file) < FilePosition(nodes[k].file)
           \/ /\ nodes[j].file = nodes[k].file
              /\ nodes[j].startLine <= nodes[k].startLine

\* C17 witness: two files, the first with constructs on two lines and the
\* second with one construct
C17_Witness ==
  /\ pc = "done"
  /\ Len(files) = 2
  /\ Len(nodes) = 5
  /\ nodes[3].file = files[1].path
  /\ nodes[4].file = files[1].path
  /\ nodes[3].startLine < nodes[4].startLine
  /\ nodes[5].file = files[2].path

\* a direct call of the brace strategy has returned
BraceCallDone ==
  /\ pc = "idle"
  /\ estOut # -1
  /\ estIn.type \in {"JS", "C_CPP"}

\* C18: when the start line of the construct is a single-line declaration
\* without a brace, determineEndLine of the brace strategy returns the
\* bounded default min(startIndex + 20, lineCount), whatever braces appear
\* on later lines; the span is not extended to the end of a later brace
\* block.
C18_BracelessFallback ==
  (/\ BraceCallDone
   /\ estIn.lines[estIn.startIdx + 1] # <<>>
   /\ \A p \in 1..Len(estIn.lines[estIn.startIdx + 1]) :
        estIn.lines[estIn.startIdx + 1][p] \notin {"{", "}"})
    => estOut = (IF estIn.startIdx + 20 <= Len(estIn.lines)
                 THEN estIn.startIdx + 20 ELSE Len(estIn.lines))

\* C18 case reached: the declaration "x;" is followed by the one-line block
\* of g and more than 20 further lines, and the call returns 2
C18_LaterBlock ==
  /\ BraceCallDone
  /\ estIn.startIdx = 0
  /\ Len(estIn.lines) = 22
  /\ estIn.lines[1] = <<"x", ";">>
  /\ estIn.lines[2] = <<"v", "o", "i", "d", " ", "g", "(", ")", " ", "{", "}">>
  /\ estOut = 2

\* the words that follow position a of a line after one or more whitespace
\* characters: the longest run of word characters there; empty or a singleton
WordsAfter(line, a) ==
  {tok \in {SubSeq(line, p[1], p[2]) : p \in (1..Len(line)) \X (1..Len(line))} :
     \E t \in (a + 1)..Len(line) :
       /\ \A k \in a..(t - 1) : line[k] \in {" ", "\t", "\r"}
       /\ tok # <<>>
       /\ t + Len(tok) - 1 <= Len(line)
       /\ tok = SubSeq(line, t, t + Len(tok) - 1)
       /\ \A k \in 1..Len(tok) : tok[k] \in WordChar
       /\ (t + Len(tok) <= Len(line) => line[t + Len(tok)] \notin WordChar)}

\* the names of the class a top-level 'class' line of Family A declares
ClassLineNames(line) ==
  IF Len(line) >= 5 /\ SubSeq(line, 1, 5) = <<"c", "l", "a", "s", "s">>
  THEN WordsAfter(line, 6) ELSE {}

\* the line is a def line of Family A: optional whitespace, "def",
\* whitespace and a name
IsDefLine(line) ==
  /\ ~AllBlank(line)
  /\ Indentation(line) + 3 <= Len(line)
  /\ SubSeq(line, Indentation(line) + 1, Indentation(line) + 3) = <<"d", "e", "f">>
  /\ WordsAfter(line, Indentation(line) + 4) # {}

\* the positions (1-based) of the class lines before the line a step is at
\* that own it: the last class line, if no def at indentation 0 lies between
OwningClassLines ==
  {c \in 1..li :
     /\ ClassLineNames(lines[c]) # {}
     /\ \A k \in (c + 1)..li :
          /\ ClassLineNames(lines[k]) = {}
          /\ ~(IsDefLine(lines[k]) /\ Indentation(lines[k]) = 0)}

\* the cursor on one step of the second pass at depth >= 3: the start of a
\* file clears it, a class line of a .py file sets it to the node of that
\* line, a def attached to the FILE node clears it and nothing else changes
\* it; the CONTAINS link of a def starts at the class of the owning class
\* line if the def is indented and has one, and at the FILE node otherwise
C19_CursorRule ==
  /\ (pc = "parse" /\ lines = <<>> /\ lines' # <<>>) => currentClass' = <<>>
  /\ (AtLineStep /\ IsPythonPath(files[fi].path) /\ depth >= 3) =>
       LET line   == lines[li + 1]
           path   == files[fi].path
           fileId == <<"F", "I", "L", "E", ":">> \o path
           newC   == LinksOfType(NewLinks, "CONTAINS")
       IN  /\ ClassLineNames(line) # {} =>
                /\ Len(NewNodes) = 1
                /\ NewNodes[1].type = "CLASS"
                /\ NewNodes[1].label \in ClassLineNames(line)
                /\ NewNodes[1].startLine = li + 1
                /\ currentClass' = <<NewNodes[1]>>
           /\ (ClassLineNames(line) = {} /\ IsDefLine(line)) =>
                /\ Len(NewNodes) = 1 /\ Len(newC) = 1
                /\ NewNodes[1].type = "FUNCTION"
                /\ IF Indentation(line) > 0 /\ OwningClassLines # {}
                   THEN /\ \E c \in OwningClassLines :
                             \E n \in ClassLineNames(lines[c]) :
                               newC[1].source = <<"C", "L", "A", "S", "S", ":">> \o path \o <<":">> \o n
                        /\ currentClass' = currentClass
                        /\ currentClass # <<>>
                        /\ currentClass[1].id = newC[1].source
                   ELSE /\ newC[1].source = fileId
                        /\ currentClass' = <<>>
           /\ (ClassLineNames(line) = {} /\ ~IsDefLine(line)) =>
                /\ NewNodes = <<>>
                /\ currentClass' = currentClass

\* a Class -> Function CONTAINS edge joins nodes of one file
C19_SameFile ==
  \A k \in 1..Len(links) :
    (links[k].type = "CONTAINS" /\ links[k].source \in IdsOfType(nodes, "CLASS")) =>
      \E c, f \in 1..Len(nodes) :
        /\ nodes[c].id = links[k].source /\ nodes[c].type = "CLASS"
        /\ nodes[f].id = links[k].target /\ nodes[f].type = "FUNCTION"
        /\ nodes[c].file = nodes[f].file

\* C19: in Family A at depth >= 3 currentClass is null at the start of each
\* file, is set by each top-level 'class' line to the node of that class and
\* is cleared by each def that is attached to the File; the source of every
\* Class -> Function CONTAINS edge is the node of the most recent 'class'
\* line before the def in the same file with no def at indentation 0 between
\* them; such an edge never joins nodes of two files, and an indented def
\* after a top-level def attaches to the File until the next class line.
C19_ClassCursor ==
  [][C19_CursorRule]_vars /\ []C19_SameFile

\* C19 witness: at depth 3, a.py ends inside class A and b.py starts with an
\* indented def, which is attached to the FILE node of b.py
C19_Witness ==
  /\ pc = "done"
  /\ depth = 3
  /\ Len(files) = 2
  /\ files[1].path = <<"a", ".", "p", "y">>
  /\ files[2].path = <<"b", ".", "p", "y">>
  /\ SplitLines(files[1].content) = << <<"c", "l", "a", "s", "s", " ", "A", ":">>, <<" ", " ", " ", " ", "d", "e", "f", " ", "m", "(", "s", "e", "l", "f", ")", ":">> >>
  /\ SplitLines(files[2].content) = << <<" ", " ", " ", " ", "d", "e", "f", " ", "m", "(", "s", "e", "l", "f", ")", ":">> >>
  /\ LinksOfType(links, "CONTAINS") =
       << [source |-> <<"F", "I", "L", "E", ":", "a", ".", "p", "y">>, target |-> <<"C", "L", "A", "S", "S", ":", "a", ".", "p", "y", ":", "A">>, type |-> "CONTAINS"],
          [source |-> <<"C", "L", "A", "S", "S", ":", "a", ".", "p", "y", ":", "A">>, target |-> <<"F", "U", "N", "C", "T", "I", "O", "N", ":", "a", ".", "p", "y", ":", "m">>, type |-> "CONTAINS"],
          [source |-> <<"F", "I", "L", "E", ":", "b", ".", "p", "y">>, target |-> <<"F", "U", "N", "C", "T", "I", "O", "N", ":", "b", ".", "p", "y", ":", "m">>, type |-> "CONTAINS"] >>

\* C19 case reached: an indented def after a top-level def is attached to
\* the FILE node
C19_AfterTopLevelDef ==
  /\ pc = "done"
  /\ depth = 3
  /\ Len(files) = 1
  /\ files[1].path = <<"a", ".", "p", "y">>
  /\ SplitLines(files[1].content) = << <<"c", "l", "a", "s", "s", " ", "A", ":">>, <<"d", "e", "f", " ", "m", "(", ")", ":">>, <<" ", " ", " ", " ", "d", "e", "f", " ", "m", "(", "s", "e", "l", "f", ")", ":">> >>
  /\ LinksOfType(links, "CONTAINS") =
       << [source |-> <<"F", "I", "L", "E", ":", "a", ".", "p", "y">>, target |-> <<"C", "L", "A", "S", "S", ":", "a", ".", "p", "y", ":", "A">>, type |-> "CONTAINS"],
          [source |-> <<"F", "I", "L", "E", ":", "a", ".", "p", "y">>, target |-> <<"F", "U", "N", "C", "T", "I", "O", "N", ":", "a", ".", "p", "y", ":", "m">>, type |-> "CONTAINS"],
          [source |-> <<"F", "I", "L", "E", ":", "a", ".", "p", "y">>, target |-> <<"F", "U", "N", "C", "T", "I", "O", "N", ":", "a", ".", "p", "y", ":", "m">>, type |-> "CONTAINS"] >>

\* C20: after any sequence of file-set loads and depth changes, once the
\* runs have completed the displayed analysis is the result of the extractor
\* for the current file set and the current depth, for every new file set
\* including an empty one: no graph and no selection of an earlier file set
\* or depth stays displayed (nothing displayed counts as the empty graph).
C20_DisplayedIsCurrent ==
  (pc = "app" /\ pending = <<>>) =>
    LET current == analyzeCodebase(files, depth)
    IN  /\ IF analysis = <<>>
           THEN current.nodes = <<>> /\ current.links = <<>>
           ELSE analysis[1] = current
        /\ selectedNode # <<>> =>
             \E k \in 1..Len(current.nodes) : current.nodes[k] = selectedNode[1]

\* C20 case reached: the end-to-end scenario was analysed and a node
\* selected, then a directory without an allowed file was loaded; the graph
\* and the selection of the scenario are still displayed
C20_StaleGraph ==
  /\ pc = "app"
  /\ pending = <<>>
  /\ files = <<>>
  /\ analysis # <<>>
  /\ Len(analysis[1].nodes) = 4
  /\ selectedNode # <<>>

\* a step of the second pass in a .py file that appends a Function node and
\* a CONTAINS link to it from the active class
ClassFunctionStep ==
  /\ AtLineStep
  /\ IsPythonPath(files[fi].path)
  /\ currentClass # <<>>
  /\ currentClass[1].type = "CLASS"
  /\ Len(NewNodes) = 1
  /\ NewNodes[1].type = "FUNCTION"
  /\ \E k \in 1..Len(NewLinks) :
       /\ NewLinks[k].type = "CONTAINS"
       /\ NewLinks[k].source = currentClass[1].id
       /\ NewLinks[k].target = NewNodes[1].id

\* C21 as stated: for every CONTAINS edge from a Class node to a Function
\* node in a Family A file the span of the Function lies inside the span of
\* the Class: class.startLine < function.startLine and function.endLine <=
\* class.endLine.
C21_SpanNesting_Original ==
  [][ClassFunctionStep =>
       /\ currentClass[1].startLine < NewNodes[1].startLine
       /\ NewNodes[1].endLine <= currentClass[1].endLine]_vars

\* C21: for every CONTAINS edge from the active Class node to the Function
\* node of an indented def in a Family A file, both nodes are of one file,
\* class.startLine < function.startLine, and function.endLine <=
\* class.endLine whenever the def line lies inside the estimated span of the
\* class (function.startLine <= class.endLine); a def after the end of that
\* span is attached to the active class all the same.
C21_SpanNesting ==
  [][ClassFunctionStep =>
       /\ currentClass[1].file = NewNodes[1].file
       /\ currentClass[1].startLine < NewNodes[1].startLine
       /\ (NewNodes[1].startLine <= currentClass[1].endLine =>
             NewNodes[1].endLine <= currentClass[1].endLine)]_vars

\* C21 witness: a.py is 'class A:', '    def m(self):', '        pass' at
\* depth 3; A spans lines 1..3 and its method m, attached to A, lines 2..3
C21_Witness ==
  /\ pc = "done"
  /\ depth = 3
  /\ Len(files) = 1
  /\ files[1].path = <<"a", ".", "p", "y">>
  /\ SplitLines(files[1].content) = << <<"c", "l", "a", "s", "s", " ", "A", ":">>, <<" ", " ", " ", " ", "d", "e", "f", " ", "m", "(", "s", "e", "l", "f", ")", ":">>, <<" ", " ", " ", " ", " ", " ", " ", " ", "p", "a", "s", "s">> >>
  /\ Len(nodes) = 3
  /\ nodes[2].type = "CLASS" /\ nodes[2].startLine = 1 /\ nodes[2].endLine = 3
  /\ nodes[3].type = "FUNCTION" /\ nodes[3].startLine = 2 /\ nodes[3].endLine = 3
  /\ \E k \in 1..Len(links) :
       links[k] = [source |-> nodes[2].id, target |-> nodes[3].id, type |-> "CONTAINS"]

\* C21 case reached: a.py is 'class A:', 'import b', '    def m(self):' at
\* depth 3; A spans line 1 only and the def of line 3 is attached to A
C21_DefAfterClassEnd ==
  /\ pc = "done"
  /\ depth = 3
  /\ Len(files) = 1
  /\ files[1].path = <<"a", ".", "p", "y">>
  /\ SplitLines(files[1].content) = << <<"c", "l", "a", "s", "s", " ", "A", ":">>, <<"i", "m", "p", "o", "r", "t", " ", "b">>, <<" ", " ", " ", " ", "d", "e", "f", " ", "m", "(", "s", "e", "l", "f", ")", ":">> >>
  /\ Len(nodes) = 3
  /\ nodes[2].type = "CLASS" /\ nodes[2].startLine = 1 /\ nodes[2].endLine = 1
  /\ nodes[3].type = "FUNCTION" /\ nodes[3].startLine = 3 /\ nodes[3].endLine = 3
  /\ \E k \in 1..Len(links) :
       links[k] = [source |-> nodes[2].id, target |-> nodes[3].id, type |-> "CONTAINS"]

====
